---- MODULE Spec2Model ----
(***************************************************************************)
(* Remote BLS signer: the secure keystore (src/unnamed/part_000) and the   *)
(* HTTP request/response layer in front of it (src/lib/httpRemote.h).      *)
(*                                                                         *)
(* Bytes are one-character strings, a C string or buffer is a sequence of  *)
(* bytes, NUL is the terminating zero byte.  A blst_scalar (32 bytes) is   *)
(* written as the number it holds; 0 is the all-zero scalar.               *)
(***************************************************************************)
EXTENDS Integers, Sequences, FiniteSets, TLC

\* ------------------------------------------------------------------------
\* Program constants
\* ------------------------------------------------------------------------
K == 10                  \* blst_scalar secret_keys_store[10]
MAXKeys == 10            \* #define MAXKeys 10
keySize == 96            \* #define keySize 96
MAXSizeEthereumSignature == 192
MAXHeaders == 100        \* #define MAXHeaders 100
HeaderLimit == 300       \* "Arbitrary limit to discard request"

\* boardRequest.method codes and accept types
sign == 0
upcheck == 1
getKeys == 2
importKey == 4
textPlain == 0
applicationJson == 1

\* ------------------------------------------------------------------------
\* Bounds of the exploration
\* ------------------------------------------------------------------------
NGen == 1                \* the DRBG cycles through this many distinct secrets
MaxOverflow == 1         \* insertions explored past the end of the arrays
MaxUnsynced == 1         \* slots whose stored hex is not that of their secret
MaxServed == 1           \* keys generated while requests are being served

NUL == "NUL"
ZeroScalar == 0
GenScalars == 1..NGen
\* one more secret that only import_sk can bring in
Scalars == 1..(NGen + 1)
\* what a scalar holds after bytes of another object were written over it
JunkScalar == NGen + 2
\* the secrets inside the keystores that Import requests carry
ImportSecretA == NGen + 3
ImportSecretB == NGen + 4

Min(a, b) == IF a < b THEN a ELSE b

HexDigits == <<"0", "1", "2", "3", "4", "5", "6", "7",
               "8", "9", "a", "b", "c", "d", "e", "f">>

\* ------------------------------------------------------------------------
\* BLS primitives and the hex codec of the non-secure caller
\* ------------------------------------------------------------------------

\* blst_sk_to_pk_in_g1 followed by compression: 48 bytes, one public key per
\* secret (injective on Scalars).
blst_sk_to_pk_in_g1(s) == [i \in 1..48 |-> (37 * s + 11 * i) % 256]

\* lowercase hex of a byte string, two characters per byte
hex_encode(bytes) ==
    [i \in 1..(2 * Len(bytes)) |->
        LET b == bytes[(i + 1) \div 2]
        IN  IF i % 2 = 1 THEN HexDigits[(b \div 16) + 1]
                         ELSE HexDigits[(b % 16) + 1]]

\* the 96 characters the caller hands to store_pk for secret s
PkHexTable == [s \in 0..(NGen + 4) |-> hex_encode(blst_sk_to_pk_in_g1(s))]
PkHex(s) == PkHexTable[s]

\* the same key as the caller prints it, "0x" first, cut to the 96
\* characters store_pk copies
PkHex0x(s) == <<"0", "x">> \o SubSeq(PkHex(s), 1, keySize - 2)

\* blst_sign_pk_in_g1 followed by compression: the 96 bytes of the signature
\* of the G2 point hash under secret s
blst_sign_pk_in_g1(hash, s) == [i \in 1..96 |-> (53 * s + 7 * i + 101 * hash) % 256]

\* ------------------------------------------------------------------------
\* State
\* ------------------------------------------------------------------------
VARIABLES
    sk,                      \* blst_scalar sk
    secret_keys_store,       \* blst_scalar secret_keys_store[10]; C index i is [i + 1]
    sk_sign,                 \* blst_scalar sk_sign
    public_keys_hex_store,   \* char public_keys_hex_store[960] as 10 blocks of 96:
                             \* C index x + 96*i is [i + 1][x + 1]
    keystore_size,           \* int keystore_size
    drbg,                    \* state of the hardware DRBG / rand()
    sig,                     \* the blst_p2 the last sign_pk wrote for its caller
    recvBuffer,              \* the buffer the connection is read into
    boardRequest,            \* the struct boardRequest the caller keeps
    response,                \* the buffer dumpHttpResponse writes
    ret,                     \* the value the last parseRequest/dumpHttpResponse returned
    import,                  \* the locals of httpImportFromKeystore when it returned
    pc                       \* where the serving loop is

ksvars == <<sk, secret_keys_store, sk_sign, public_keys_hex_store,
            keystore_size, drbg, sig>>
httpvars == <<recvBuffer, boardRequest, response, ret, import, pc>>
vars == <<sk, secret_keys_store, sk_sign, public_keys_hex_store,
          keystore_size, drbg, sig, recvBuffer, boardRequest, response, ret, import, pc>>

NoSig == [i \in 1..96 |-> 0]

\* 96 zero bytes
NulBlock == [x \in 1..keySize |-> NUL]

\* static storage is zero-initialised
KeystoreInit ==
    /\ sk = ZeroScalar
    /\ secret_keys_store = [i \in 1..K |-> ZeroScalar]
    /\ sk_sign = ZeroScalar
    /\ public_keys_hex_store = [i \in 1..K |-> NulBlock]
    /\ keystore_size = 0
    /\ drbg = 0
    /\ sig = NoSig

get_keystore_size == keystore_size

\* the 96 characters of slot i of the public key store, i in 0..K-1
StoredHex(i) == public_keys_hex_store[i + 1]

\* slots below the size whose hex is not the one derived from their secret
Unsynced ==
    {i \in 0..(Min(keystore_size, K) - 1) :
        StoredHex(i) # PkHex(secret_keys_store[i + 1])}

\* every index below the size lies inside the two arrays
InBounds == keystore_size <= K

\* ------------------------------------------------------------------------
\* Keystore entry points (src/unnamed/part_000)
\* ------------------------------------------------------------------------

\* blst_keygen on the IKM the DRBG delivers in state d
blst_keygen(d) == d + 1

\* secret_keys_store[idx] = v.  An index past the end of the array writes the
\* 32 bytes over whatever the linker placed there: sk_sign, which is declared
\* right after the array, or memory that is not part of this model.
WriteSecret(idx, v) ==
    IF idx < K
    THEN /\ secret_keys_store' = [secret_keys_store EXCEPT ![idx + 1] = v]
         /\ UNCHANGED sk_sign
    ELSE /\ UNCHANGED secret_keys_store
         /\ \E victim \in {"sk_sign", "elsewhere"} :
                sk_sign' = IF victim = "sk_sign" THEN v ELSE sk_sign

\* what nrf_cc3xx_platform_ctr_drbg_get returns: 0 or an error code
DrbgReturns == {"ok", "error"}

\* the DRBG states random_number can stand for after the call: the one the
\* DRBG delivered, or on an error whatever the stack held, the array having
\* no initialiser
RandomNumber(rng) == IF rng = "ok" THEN {drbg} ELSE 0..(NGen - 1)

\* void ikm_sk(char* info) when the DRBG returns rng: the value is stored in
\* ret and not looked at, and the size is not compared with the capacity.
ikm_sk_drbg(rng) ==
    /\ keystore_size < K + MaxOverflow
    /\ Cardinality(Unsynced) < MaxUnsynced
    /\ \E d \in RandomNumber(rng) :
        /\ sk' = blst_keygen(d)
        /\ WriteSecret(keystore_size, blst_keygen(d))
    /\ drbg' = IF rng = "ok" THEN (drbg + 1) % NGen ELSE drbg
    /\ keystore_size' = keystore_size + 1
    /\ UNCHANGED <<public_keys_hex_store, sig>>

ikm_sk == \E rng \in DrbgReturns : ikm_sk_drbg(rng)

\* the comparison loop of import_sk: TRUE when some entry below the size has
\* the 32 bytes of sk_imp.  An entry read past the end of the array compares
\* with bytes of another object, which may or may not be equal.
ImportDuplicate(sk_imp, oobEqual) ==
    \/ \E i \in 0..(Min(keystore_size, K) - 1) : secret_keys_store[i + 1] = sk_imp
    \/ (keystore_size > K /\ oobEqual)

\* int import_sk(blst_scalar* sk_imp); the value returned is import_ret'
import_sk_result(sk_imp, oobEqual) ==
    IF keystore_size = 0 THEN 0
    ELSE IF ImportDuplicate(sk_imp, oobEqual) THEN 0 - 1 ELSE 0

import_sk(sk_imp) ==
    /\ keystore_size < K + MaxOverflow
    /\ \E oobEqual \in (IF keystore_size > K THEN BOOLEAN ELSE {FALSE}) :
        IF import_sk_result(sk_imp, oobEqual) = 0
        THEN /\ Cardinality(Unsynced) < MaxUnsynced
             /\ WriteSecret(keystore_size, sk_imp)
             /\ keystore_size' = keystore_size + 1
             /\ sk' = sk_imp
        ELSE UNCHANGED <<secret_keys_store, sk_sign, keystore_size, sk>>
    /\ UNCHANGED <<public_keys_hex_store, drbg, sig>>

\* void sk_to_pk(blst_p1* pk): the public key of the working secret sk
sk_to_pk == blst_sk_to_pk_in_g1(sk)

\* void store_pk(char* public_key_hex): 96 characters into slot size - 1.
\* With an empty store the slot is -1 and the 96 bytes land in front of the
\* array: over sk_sign, which is declared right before it, or over memory
\* that is not part of this model.
store_pk(public_key_hex) ==
    /\ InBounds
    /\ LET cont == keystore_size - 1 IN
       IF cont >= 0
       THEN /\ public_keys_hex_store' =
                   [public_keys_hex_store EXCEPT
                       ![cont + 1] = [i \in 1..keySize |-> public_key_hex[i]]]
            /\ UNCHANGED sk_sign
       ELSE /\ UNCHANGED public_keys_hex_store
            /\ \E victim \in {"sk_sign", "elsewhere"} :
                   sk_sign' = IF victim = "sk_sign" THEN JunkScalar ELSE sk_sign
    /\ UNCHANGED <<sk, secret_keys_store, keystore_size, drbg, sig>>
    /\ Cardinality(Unsynced') <= MaxUnsynced

\* void getkeys(char* public_keys_hex_store_ns): the first size*96 characters,
\* as size blocks of 96
getkeys == [i \in 1..keystore_size |-> public_keys_hex_store[i]]

\* character i (from 0) of a C string: past its last character the NUL
CharAt(str, i) == IF i < Len(str) THEN str[i + 1] ELSE NUL

\* the indices i below the size whose 96 stored characters equal
\* public_key_hex[offset .. offset+95]
PkMatchesButLast(public_key_hex, offset) ==
    LET wanted == [x \in 1..keySize |-> CharAt(public_key_hex, (x - 1) + offset)]
    IN  {i \in 0..(keystore_size - 2) : public_keys_hex_store[i + 1] = wanted}

PkMatches(public_key_hex, offset) ==
    LET wanted == [x \in 1..keySize |-> CharAt(public_key_hex, (x - 1) + offset)]
    IN  {i \in 0..(keystore_size - 1) : public_keys_hex_store[i + 1] = wanted}

SetMin(S) == CHOOSE m \in S : \A n \in S : m <= n

\* int pk_in_keystore(char* public_key_hex, int offset): the value returned
pk_in_keystore_ret(public_key_hex, offset) ==
    IF PkMatches(public_key_hex, offset) = {} THEN 0 - 1 ELSE 0

\* the value of sk_sign when pk_in_keystore returns
pk_in_keystore_sk_sign_cleared(public_key_hex, offset) ==
    IF PkMatches(public_key_hex, offset) = {}
    THEN ZeroScalar
    ELSE secret_keys_store[SetMin(PkMatches(public_key_hex, offset)) + 1]

pk_in_keystore_sk_sign(public_key_hex, offset) ==
    IF PkMatches(public_key_hex, offset) = {}
    THEN sk_sign
    ELSE secret_keys_store[SetMin(PkMatches(public_key_hex, offset)) + 1]

pk_in_keystore(public_key_hex, offset) ==
    /\ InBounds
    /\ sk_sign' = pk_in_keystore_sk_sign(public_key_hex, offset)
    /\ UNCHANGED <<sk, secret_keys_store, public_keys_hex_store,
                   keystore_size, drbg, sig>>

\* void sign_pk(blst_p2* sig, blst_p2* hash)
sign_pk(hash) ==
    /\ sig' = blst_sign_pk_in_g1(hash, sk_sign)
    /\ UNCHANGED <<sk, secret_keys_store, sk_sign, public_keys_hex_store,
                   keystore_size, drbg>>

\* void reset(): sk and sk_sign are not touched
reset ==
    /\ secret_keys_store' = [i \in 1..K |-> ZeroScalar]
    /\ public_keys_hex_store' = [i \in 1..K |-> NulBlock]
    /\ keystore_size' = 0
    /\ UNCHANGED <<sk, sk_sign, drbg, sig>>

\* what callers of the secure entry points pass in
Hashes == {1}
PkInputs == {PkHex(s) : s \in Scalars} \cup {PkHex0x(s) : s \in GenScalars}


\* ------------------------------------------------------------------------
\* C strings (src/lib/httpRemote.h uses strncmp, strstr, strchr, atoi)
\* ------------------------------------------------------------------------
Digits == <<"0", "1", "2", "3", "4", "5", "6", "7", "8", "9">>
IsDigit(c) == \E d \in 1..10 : Digits[d] = c
DigitVal(c) == (CHOOSE d \in 1..10 : Digits[d] = c) - 1

\* strncmp(buf + at, lit, strlen(lit)) == 0; buf ends with a NUL
StartsWithAt(buf, at, lit) ==
    /\ at + Len(lit) <= Len(buf)
    /\ \A i \in 1..Len(lit) : buf[at + i] = lit[i]

\* strstr(buf + from, lit): the offset in buf of the first occurrence at or
\* after offset from, -1 for NULL
strstrFrom(buf, from, lit) ==
    LET hits == {at \in from..(Len(buf) - Len(lit)) : StartsWithAt(buf, at, lit)}
    IN  IF hits = {} THEN 0 - 1 ELSE SetMin(hits)

\* strchr(buf + from, c)
strchrFrom(buf, from, c) == strstrFrom(buf, from, <<c>>)

\* the digits of atoi, most significant first, read from offset at
RECURSIVE atoiDigits(_, _, _)
atoiDigits(buf, at, acc) ==
    IF at < Len(buf) /\ IsDigit(buf[at + 1])
    THEN atoiDigits(buf, at + 1, 10 * acc + DigitVal(buf[at + 1]))
    ELSE acc

RECURSIVE SkipSpaces(_, _)
SkipSpaces(buf, at) ==
    IF at < Len(buf) /\ buf[at + 1] \in {" ", "\t", "\n", "\r"}
    THEN SkipSpaces(buf, at + 1)
    ELSE at

\* atoi(buf + at): white space, an optional sign, then digits
atoi(buf, at) ==
    LET s == SkipSpaces(buf, at)
    IN  IF s < Len(buf) /\ buf[s + 1] = "-" THEN 0 - atoiDigits(buf, s + 1, 0)
        ELSE IF s < Len(buf) /\ buf[s + 1] = "+" THEN atoiDigits(buf, s + 1, 0)
        ELSE atoiDigits(buf, s, 0)

\* sprintf("%d", n) for n >= 0
RECURSIVE itoa(_)
itoa(n) == IF n < 10 THEN <<Digits[n + 1]>>
           ELSE itoa(n \div 10) \o <<Digits[(n % 10) + 1]>>

\* string literals of the library
POSTStr == <<"P", "O", "S", "T">>
GETStr == <<"G", "E", "T">>
ContentLengthColon == <<"C", "o", "n", "t", "e", "n", "t", "-", "L", "e", "n", "g", "t", "h", ":", " ">>
CRLFCRLF == <<"\r", "\n", "\r", "\n">>
CRLF == <<"\r", "\n">>
upcheckStr == <<"/", "u", "p", "c", "h", "e", "c", "k">>
getKeysStr == <<"/", "a", "p", "i", "/", "v", "1", "/", "e", "t", "h", "2", "/", "p", "u", "b", "l", "i", "c", "K", "e", "y", "s">>
signRequestStr == <<"/", "a", "p", "i", "/", "v", "1", "/", "e", "t", "h", "2", "/", "s", "i", "g", "n", "/", "0", "x">>
contentLengthStr == <<"c", "o", "n", "t", "e", "n", "t", "-", "l", "e", "n", "g", "t", "h">>
keymanagerStr == <<"/", "e", "t", "h", "/", "v", "1", "/", "k", "e", "y", "s", "t", "o", "r", "e", "s">>
acceptStr == <<"A", "c", "c", "e", "p", "t">>
applicationJsonStr == <<"a", "p", "p", "l", "i", "c", "a", "t", "i", "o", "n", "/", "j", "s", "o", "n">>
HttpVersionStr == <<"H", "T", "T", "P", "/", "1", ".">>

\* ------------------------------------------------------------------------
\* phr_parse_request of picohttpparser, as parseRequest calls it (last_len 0).
\* Returns [ret, method, path, headers]: ret is the number of bytes of the
\* request line and headers, -2 when they are not yet complete, -1 when they
\* are malformed or hold more headers than maxHeaders.
\* ------------------------------------------------------------------------
PhrFail(code) == [ret |-> code, method |-> <<>>, path |-> <<>>, headers |-> <<>>]

\* the offset of the first character at or after from that is in stops, or
\* Len(buf) when there is none
RECURSIVE ScanTo(_, _, _)
ScanTo(buf, from, stops) ==
    IF from >= Len(buf) \/ buf[from + 1] \in stops THEN from
    ELSE ScanTo(buf, from + 1, stops)

RECURSIVE SkipBlanks(_, _)
SkipBlanks(buf, at) ==
    IF at < Len(buf) /\ buf[at + 1] \in {" ", "\t"} THEN SkipBlanks(buf, at + 1) ELSE at

\* -2 when buf ends before lit is complete, -1 when it differs, 0 when present
Expect(buf, at, lit) ==
    IF StartsWithAt(buf, at, lit) THEN 0
    ELSE IF \A i \in 1..Len(lit) : (at + i > Len(buf) \/ buf[at + i] = lit[i]) THEN 0 - 2
    ELSE 0 - 1

RECURSIVE PhrHeaders(_, _, _, _)
PhrHeaders(buf, at, acc, maxHeaders) ==
    IF at >= Len(buf) THEN PhrFail(0 - 2)
    ELSE IF buf[at + 1] = "\r"
    THEN IF Expect(buf, at, CRLF) # 0 THEN PhrFail(Expect(buf, at, CRLF))
         ELSE [ret |-> at + 2, method |-> <<>>, path |-> <<>>, headers |-> acc]
    ELSE IF Len(acc) = maxHeaders THEN PhrFail(0 - 1)
    ELSE LET colon == ScanTo(buf, at, {":", " ", "\t", "\r", "\n"})
             vstart == SkipBlanks(buf, colon + 1)
             vend == ScanTo(buf, vstart, {"\r", "\n"})
         IN  IF colon >= Len(buf) THEN PhrFail(0 - 2)
             ELSE IF buf[colon + 1] # ":" \/ colon = at THEN PhrFail(0 - 1)
             ELSE IF vend >= Len(buf) THEN PhrFail(0 - 2)
             ELSE IF Expect(buf, vend, CRLF) # 0 THEN PhrFail(Expect(buf, vend, CRLF))
             ELSE PhrHeaders(buf, vend + 2,
                             Append(acc, [name |-> SubSeq(buf, at + 1, colon),
                                          value |-> SubSeq(buf, vstart + 1, vend)]),
                             maxHeaders)

phr_parse_request(buf, maxHeaders) ==
    LET mend == ScanTo(buf, 0, {" ", "\r", "\n"})
        pend == ScanTo(buf, mend + 1, {" ", "\r", "\n"})
        vers == Expect(buf, pend + 1, HttpVersionStr)
        vdig == pend + 1 + Len(HttpVersionStr)
    IN  IF mend >= Len(buf) THEN PhrFail(0 - 2)
        ELSE IF buf[mend + 1] # " " \/ mend = 0 THEN PhrFail(0 - 1)
        ELSE IF pend >= Len(buf) THEN PhrFail(0 - 2)
        ELSE IF buf[pend + 1] # " " \/ pend = mend + 1 THEN PhrFail(0 - 1)
        ELSE IF vers # 0 THEN PhrFail(vers)
        ELSE IF vdig >= Len(buf) THEN PhrFail(0 - 2)
        ELSE IF ~IsDigit(buf[vdig + 1]) THEN PhrFail(0 - 1)
        ELSE IF Expect(buf, vdig + 1, CRLF) # 0 THEN PhrFail(Expect(buf, vdig + 1, CRLF))
        ELSE LET h == PhrHeaders(buf, vdig + 3, <<>>, maxHeaders)
             IN  IF h.ret < 0 THEN h
                 ELSE [h EXCEPT !.method = SubSeq(buf, 1, mend),
                                !.path = SubSeq(buf, mend + 2, pend)]

\* ------------------------------------------------------------------------
\* Request parsing (src/lib/httpRemote.h)
\* ------------------------------------------------------------------------

\* a pointer or length that was never assigned
\* (pointers into the buffer are offsets, zero or more)
Uninit == 0 - 2
NullPtr == 0 - 1

\* the position at which the loop of getBody stops: the first header whose
\* name has the 14 characters of contentLengthStr and for which strncmp
\* against contentLengthStr is non-zero; Len(headers) + 1 when none does
getBodyPosition(headers) ==
    LET stops == {i \in 1..Len(headers) :
                     /\ Len(headers[i].name) = Len(contentLengthStr)
                     /\ headers[i].name # contentLengthStr}
    IN  IF stops = {} THEN Len(headers) + 1 ELSE SetMin(stops)

\* void getBody(buffer, bufferSize, request): the body and bodyLen fields of
\* request when it returns; body is a pointer into buffer, written as its
\* offset.  Both keep their unassigned stack values when the loop runs off
\* the end of the headers.
getBody(buffer, headers) ==
    LET pos == getBodyPosition(headers)
        bodyLen == atoi(headers[pos].value, 0)
    IN  IF pos > Len(headers) THEN [body |-> Uninit, bodyLen |-> Uninit]
        ELSE IF bodyLen > 0
        THEN [body |-> Len(buffer) - bodyLen, bodyLen |-> bodyLen]
        ELSE [body |-> NullPtr, bodyLen |-> bodyLen]

\* the position at which the loop of getAcceptOptions stops: the first
\* header named exactly acceptStr; Len(headers) + 1 when there is none
getAcceptPosition(headers) ==
    LET stops == {i \in 1..Len(headers) : headers[i].name = acceptStr}
    IN  IF stops = {} THEN Len(headers) + 1 ELSE SetMin(stops)

AnyTypeStr == <<"*", "/", "*">>

\* void getAcceptOptions(struct httpRequest* request): the acceptType it
\* leaves in the httpRequest.  parseRequest does not call it.
getAcceptOptions(headers) ==
    LET pos == getAcceptPosition(headers) IN
    IF pos <= Len(headers)
    THEN IF headers[pos].value = applicationJsonStr \/ headers[pos].value = AnyTypeStr
         THEN applicationJson
         ELSE textPlain
    ELSE textPlain

\* ------------------------------------------------------------------------
\* cJSON values.  An object is its list of members, an array its list of
\* children; NullJson is the NULL pointer cJSON returns.
\* ------------------------------------------------------------------------
NullJson == [type |-> "NULL"]
JObject(items) == [type |-> "Object", items |-> items]
JArray(child) == [type |-> "Array", child |-> child]
JString(s) == [type |-> "String", valuestring |-> s]
JNumber(n) == [type |-> "Number", valueint |-> n]
Member(key, val) == [key |-> key, val |-> val]

cJSON_GetObjectItemCaseSensitive(object, name) ==
    IF object.type # "Object" THEN NullJson
    ELSE LET hits == {i \in 1..Len(object.items) : object.items[i].key = name}
         IN  IF hits = {} THEN NullJson ELSE object.items[SetMin(hits)].val

\* the children of a cJSON node: the chain that starts at node->child
Children(node) ==
    IF node.type = "Array" THEN node.child
    ELSE IF node.type = "Object"
    THEN [i \in 1..Len(node.items) |-> node.items[i].val]
    ELSE <<>>

\* ------------------------------------------------------------------------
\* EIP-2335 primitives of the import pipeline (scrypt, SHA-256, AES-128-CTR)
\* ------------------------------------------------------------------------
BADJSONFORMAT == 0 - 3
BADPASSWORD == 0 - 4
PBKDF2TYPE == 2
SCRYPTTYPE == 1

\* the 32-byte key a KDF derives from a password and a salt
DerivedKey(password, salt) == [password |-> password, salt |-> salt]
\* 32 zero bytes, which no password of the model derives
ZeroKey == DerivedKey("", "")
\* SHA256(dk[16..32] || cipher.message)
Checksum(dk, cipherMessage) == [dk |-> dk, cipher |-> cipherMessage]
\* AES-128-CTR of a secret under dk[0..16]
Encrypt(secret, dk) == [secret |-> secret, dk |-> dk]

get_decryption_key_scrypt(password, dklen, salt) ==
    IF dklen # 32 THEN [ret |-> BADJSONFORMAT, dk |-> Uninit]
    ELSE [ret |-> 0, dk |-> DerivedKey(password, salt)]

verificate_password(checksumMessage, cipherMessage, decryption_key) ==
    IF checksumMessage = Checksum(decryption_key, cipherMessage) THEN 0
    ELSE BADPASSWORD

\* the private key get_private_key writes; decrypting under another key
\* gives bytes that are no stored secret
get_private_key(cipherMessage, decryption_key) ==
    IF cipherMessage.dk = decryption_key THEN cipherMessage.secret ELSE JunkScalar

\* ------------------------------------------------------------------------
\* The import pipeline (src/lib/httpRemote.h)
\* ------------------------------------------------------------------------
Crypto(keystore) == cJSON_GetObjectItemCaseSensitive(keystore, "crypto")
Kdf(keystore) == cJSON_GetObjectItemCaseSensitive(Crypto(keystore), "kdf")
KdfParams(keystore) == cJSON_GetObjectItemCaseSensitive(Kdf(keystore), "params")
IsNull(json) == json = NullJson
NotOfType(json, type) == json = NullJson \/ json.type # type

\* [ret, type]
get_decryption_key_encryption_type(keystore) ==
    LET function == cJSON_GetObjectItemCaseSensitive(Kdf(keystore), "function") IN
    IF NotOfType(keystore, "Object") THEN [ret |-> BADJSONFORMAT, type |-> Uninit]
    ELSE IF IsNull(Crypto(keystore)) THEN [ret |-> BADJSONFORMAT, type |-> Uninit]
    ELSE IF IsNull(Kdf(keystore)) THEN [ret |-> BADJSONFORMAT, type |-> Uninit]
    ELSE IF NotOfType(function, "String") THEN [ret |-> BADJSONFORMAT, type |-> Uninit]
    ELSE IF function.valuestring = "pbkdf2" THEN [ret |-> 0, type |-> PBKDF2TYPE]
    ELSE IF function.valuestring = "scrypt" THEN [ret |-> 0, type |-> SCRYPTTYPE]
    ELSE [ret |-> 0 - 1, type |-> Uninit]

\* [ret, dk]: the call of the KDF is commented out in the source, so the
\* decryption key keeps the value dk it had
get_decryption_key_pbkdf2_params(keystore, password, dk) ==
    LET params == KdfParams(keystore)
        P(name) == cJSON_GetObjectItemCaseSensitive(params, name)
    IN  IF NotOfType(keystore, "Object") THEN [ret |-> BADJSONFORMAT, dk |-> dk]
        ELSE IF IsNull(Crypto(keystore)) \/ IsNull(Kdf(keystore)) \/ IsNull(params)
        THEN [ret |-> BADJSONFORMAT, dk |-> dk]
        ELSE IF NotOfType(P("dklen"), "Number") THEN [ret |-> BADJSONFORMAT, dk |-> dk]
        ELSE IF NotOfType(P("c"), "Number") THEN [ret |-> BADJSONFORMAT, dk |-> dk]
        ELSE IF NotOfType(P("prf"), "String") THEN [ret |-> BADJSONFORMAT, dk |-> dk]
        ELSE IF NotOfType(P("salt"), "String") THEN [ret |-> BADJSONFORMAT, dk |-> dk]
        ELSE [ret |-> 0, dk |-> dk]

\* [ret, dk]
get_decryption_key_scrypt_params(keystore, password, dk) ==
    LET params == KdfParams(keystore)
        P(name) == cJSON_GetObjectItemCaseSensitive(params, name)
    IN  IF NotOfType(keystore, "Object") THEN [ret |-> BADJSONFORMAT, dk |-> dk]
        ELSE IF IsNull(Crypto(keystore)) \/ IsNull(Kdf(keystore)) \/ IsNull(params)
        THEN [ret |-> BADJSONFORMAT, dk |-> dk]
        ELSE IF NotOfType(P("dklen"), "Number") THEN [ret |-> BADJSONFORMAT, dk |-> dk]
        ELSE IF NotOfType(P("n"), "Number") THEN [ret |-> BADJSONFORMAT, dk |-> dk]
        ELSE IF NotOfType(P("r"), "Number") THEN [ret |-> BADJSONFORMAT, dk |-> dk]
        ELSE IF NotOfType(P("p"), "Number") THEN [ret |-> BADJSONFORMAT, dk |-> dk]
        ELSE IF NotOfType(P("salt"), "String") THEN [ret |-> BADJSONFORMAT, dk |-> dk]
        ELSE LET r == get_decryption_key_scrypt(password, P("dklen").valueint,
                                                P("salt").valuestring)
             IN  [ret |-> r.ret, dk |-> IF r.ret = 0 THEN r.dk ELSE dk]

verificate_password_params(keystore, decryption_key) ==
    LET checksum == cJSON_GetObjectItemCaseSensitive(Crypto(keystore), "checksum")
        cipher == cJSON_GetObjectItemCaseSensitive(Crypto(keystore), "cipher")
        checksum_message == cJSON_GetObjectItemCaseSensitive(checksum, "message")
        cipher_message == cJSON_GetObjectItemCaseSensitive(cipher, "message")
    IN  IF NotOfType(keystore, "Object") THEN BADJSONFORMAT
        ELSE IF IsNull(Crypto(keystore)) \/ IsNull(checksum) \/ IsNull(cipher)
        THEN BADJSONFORMAT
        ELSE IF NotOfType(checksum_message, "String") THEN BADJSONFORMAT
        ELSE IF NotOfType(cipher_message, "String") THEN BADJSONFORMAT
        ELSE verificate_password(checksum_message.valuestring,
                                 cipher_message.valuestring, decryption_key)

\* [ret, private_key]
get_private_key_params(keystore, decryption_key, private_key) ==
    LET cipher == cJSON_GetObjectItemCaseSensitive(Crypto(keystore), "cipher")
        params == cJSON_GetObjectItemCaseSensitive(cipher, "params")
        iv == cJSON_GetObjectItemCaseSensitive(params, "iv")
        cipher_message == cJSON_GetObjectItemCaseSensitive(cipher, "message")
        fail == [ret |-> BADJSONFORMAT, private_key |-> private_key]
    IN  IF NotOfType(keystore, "Object") THEN fail
        ELSE IF IsNull(Crypto(keystore)) \/ IsNull(cipher) \/ IsNull(params) THEN fail
        ELSE IF NotOfType(iv, "String") THEN fail
        ELSE IF NotOfType(cipher_message, "String") THEN fail
        ELSE [ret |-> 0,
              private_key |-> get_private_key(cipher_message.valuestring, decryption_key)]

\* One pass of the loop of import_from_keystore over keystore i, from the
\* locals st = [error, decryption_key, private_key, steps]; steps lists the
\* pipeline steps run so far, as <<step, keystore index, value returned>>.
ImportOneUnverified(keystore, password, i, st) ==
    LET t == get_decryption_key_encryption_type(keystore)
        s1 == [st EXCEPT !.error = t.ret, !.steps = Append(@, <<"type", i, t.ret>>)]
        k == IF t.type = PBKDF2TYPE
             THEN get_decryption_key_pbkdf2_params(keystore, password, st.decryption_key)
             ELSE get_decryption_key_scrypt_params(keystore, password, st.decryption_key)
        s2 == [s1 EXCEPT !.error = k.ret, !.decryption_key = k.dk,
                         !.steps = Append(@, <<"kdf", i, k.ret>>)]
        v == verificate_password_params(keystore, k.dk)
        s3 == [s2 EXCEPT !.error = v, !.steps = Append(@, <<"verify", i, v>>)]
        d == get_private_key_params(keystore, k.dk, st.private_key)
        s4 == [s3 EXCEPT !.error = IF v # 0 THEN v ELSE d.ret,
                         !.private_key = d.private_key,
                         !.steps = Append(@, <<"decrypt", i, d.ret>>)]
    IN  IF t.ret # 0 THEN s1
        ELSE IF k.ret # 0 THEN s2
        ELSE s4

ImportOne(keystore, password, i, st) ==
    LET t == get_decryption_key_encryption_type(keystore)
        s1 == [st EXCEPT !.error = t.ret, !.steps = Append(@, <<"type", i, t.ret>>)]
        k == IF t.type = PBKDF2TYPE
             THEN get_decryption_key_pbkdf2_params(keystore, password, st.decryption_key)
             ELSE get_decryption_key_scrypt_params(keystore, password, st.decryption_key)
        s2 == [s1 EXCEPT !.error = k.ret, !.decryption_key = k.dk,
                         !.steps = Append(@, <<"kdf", i, k.ret>>)]
        v == verificate_password_params(keystore, k.dk)
        s3 == [s2 EXCEPT !.error = v, !.steps = Append(@, <<"verify", i, v>>)]
        d == get_private_key_params(keystore, k.dk, st.private_key)
        s4 == [s3 EXCEPT !.error = d.ret, !.private_key = d.private_key,
                         !.steps = Append(@, <<"decrypt", i, d.ret>>)]
    IN  IF t.ret # 0 THEN s1
        ELSE IF k.ret # 0 THEN s2
        ELSE IF v # 0 THEN s3
        ELSE s4

\* the loop from keystore i on; it returns at the first error
RECURSIVE ImportLoop(_, _, _, _, _)
ImportLoop(keystores, passwords, nKeys, i, st) ==
    IF i >= nKeys THEN [st EXCEPT !.error = 0]
    ELSE CHOOSE r \in
            {IF next.error # 0 THEN next
             ELSE ImportLoop(keystores, passwords, nKeys, i + 1, next) :
                next \in {ImportOne(keystores[i + 1], passwords[i + 1], i, st)}} : TRUE

\* int import_from_keystore(cJSON* keystores[], char** passwords, int nKeys):
\* its locals when it returns; error is the value returned.  stack is what
\* the unassigned arrays decryption_key and private_key hold on entry.
import_from_keystore(keystores, passwords, nKeys, stack) ==
    ImportLoop(keystores, passwords, nKeys, 0,
               [error |-> 0, decryption_key |-> stack, private_key |-> JunkScalar,
                steps |-> <<>>])

\* ------------------------------------------------------------------------
\* Texts: request bodies, header lines and the response templates
\* ------------------------------------------------------------------------
KeystoreAText ==
    <<"{", "\"", "c", "r", "y", "p", "t", "o", "\"", ":", "{", "\"", "k", "d", "f", "\"", ":",
      "{", "\"", "f", "u", "n", "c", "t", "i", "o", "n", "\"", ":", "\"", "s", "c", "r", "y",
      "p", "t", "\"", ",", "\"", "p", "a", "r", "a", "m", "s", "\"", ":", "{", "\"", "d", "k",
      "l", "e", "n", "\"", ":", "3", "2", ",", "\"", "n", "\"", ":", "2", ",", "\"", "r", "\"",
      ":", "1", ",", "\"", "p", "\"", ":", "1", ",", "\"", "s", "a", "l", "t", "\"", ":", "\"",
      "5", "a", "\"", "}", "}", ",", "\"", "c", "h", "e", "c", "k", "s", "u", "m", "\"", ":",
      "{", "\"", "m", "e", "s", "s", "a", "g", "e", "\"", ":", "\"", "c", "1", "\"", "}", ",",
      "\"", "c", "i", "p", "h", "e", "r", "\"", ":", "{", "\"", "p", "a", "r", "a", "m", "s",
      "\"", ":", "{", "\"", "i", "v", "\"", ":", "\"", "1", "f", "\"", "}", ",", "\"", "m", "e",
      "s", "s", "a", "g", "e", "\"", ":", "\"", "m", "1", "\"", "}", "}", "}">>
KeystoreAJson ==
    JObject(<<
      Member("crypto", JObject(<<
        Member("kdf", JObject(<<
          Member("function", JString("scrypt")),
          Member("params", JObject(<<
            Member("dklen", JNumber(32)),
            Member("n", JNumber(2)),
            Member("r", JNumber(1)),
            Member("p", JNumber(1)),
            Member("salt", JString("5a"))>>))>>)),
        Member("checksum", JObject(<<
          Member("message", JString(Checksum(DerivedKey("pw", "5a"), Encrypt(ImportSecretA, DerivedKey("pw", "5a")))))>>)),
        Member("cipher", JObject(<<
          Member("params", JObject(<<
            Member("iv", JString("1f"))>>)),
          Member("message", JString(Encrypt(ImportSecretA, DerivedKey("pw", "5a"))))>>))>>))>>)
KeystoreBText ==
    <<"{", "\"", "c", "r", "y", "p", "t", "o", "\"", ":", "{", "\"", "k", "d", "f", "\"", ":",
      "{", "\"", "f", "u", "n", "c", "t", "i", "o", "n", "\"", ":", "\"", "s", "c", "r", "y",
      "p", "t", "\"", ",", "\"", "p", "a", "r", "a", "m", "s", "\"", ":", "{", "\"", "d", "k",
      "l", "e", "n", "\"", ":", "3", "2", ",", "\"", "n", "\"", ":", "2", ",", "\"", "r", "\"",
      ":", "1", ",", "\"", "p", "\"", ":", "1", ",", "\"", "s", "a", "l", "t", "\"", ":", "\"",
      "5", "a", "\"", "}", "}", ",", "\"", "c", "h", "e", "c", "k", "s", "u", "m", "\"", ":",
      "{", "\"", "m", "e", "s", "s", "a", "g", "e", "\"", ":", "\"", "c", "2", "\"", "}", ",",
      "\"", "c", "i", "p", "h", "e", "r", "\"", ":", "{", "\"", "p", "a", "r", "a", "m", "s",
      "\"", ":", "{", "\"", "i", "v", "\"", ":", "\"", "1", "f", "\"", "}", ",", "\"", "m", "e",
      "s", "s", "a", "g", "e", "\"", ":", "\"", "m", "2", "\"", "}", "}", "}">>
KeystoreBJson ==
    JObject(<<
      Member("crypto", JObject(<<
        Member("kdf", JObject(<<
          Member("function", JString("scrypt")),
          Member("params", JObject(<<
            Member("dklen", JNumber(32)),
            Member("n", JNumber(2)),
            Member("r", JNumber(1)),
            Member("p", JNumber(1)),
            Member("salt", JString("5a"))>>))>>)),
        Member("checksum", JObject(<<
          Member("message", JString(Checksum(DerivedKey("pw", "5a"), Encrypt(ImportSecretB, DerivedKey("pw", "5a")))))>>)),
        Member("cipher", JObject(<<
          Member("params", JObject(<<
            Member("iv", JString("1f"))>>)),
          Member("message", JString(Encrypt(ImportSecretB, DerivedKey("pw", "5a"))))>>))>>))>>)
KeystorePbkdf2Text ==
    <<"{", "\"", "c", "r", "y", "p", "t", "o", "\"", ":", "{", "\"", "k", "d", "f", "\"", ":",
      "{", "\"", "f", "u", "n", "c", "t", "i", "o", "n", "\"", ":", "\"", "p", "b", "k", "d",
      "f", "2", "\"", ",", "\"", "p", "a", "r", "a", "m", "s", "\"", ":", "{", "\"", "d", "k",
      "l", "e", "n", "\"", ":", "3", "2", ",", "\"", "c", "\"", ":", "2", ",", "\"", "p", "r",
      "f", "\"", ":", "\"", "h", "m", "a", "c", "-", "s", "h", "a", "2", "5", "6", "\"", ",",
      "\"", "s", "a", "l", "t", "\"", ":", "\"", "5", "a", "\"", "}", "}", ",", "\"", "c", "h",
      "e", "c", "k", "s", "u", "m", "\"", ":", "{", "\"", "m", "e", "s", "s", "a", "g", "e",
      "\"", ":", "\"", "c", "1", "\"", "}", ",", "\"", "c", "i", "p", "h", "e", "r", "\"", ":",
      "{", "\"", "p", "a", "r", "a", "m", "s", "\"", ":", "{", "\"", "i", "v", "\"", ":", "\"",
      "1", "f", "\"", "}", ",", "\"", "m", "e", "s", "s", "a", "g", "e", "\"", ":", "\"", "m",
      "1", "\"", "}", "}", "}">>
KeystorePbkdf2Json ==
    JObject(<<
      Member("crypto", JObject(<<
        Member("kdf", JObject(<<
          Member("function", JString("pbkdf2")),
          Member("params", JObject(<<
            Member("dklen", JNumber(32)),
            Member("c", JNumber(2)),
            Member("prf", JString("hmac-sha256")),
            Member("salt", JString("5a"))>>))>>)),
        Member("checksum", JObject(<<
          Member("message", JString(Checksum(DerivedKey("pw", "5a"), Encrypt(ImportSecretA, DerivedKey("pw", "5a")))))>>)),
        Member("cipher", JObject(<<
          Member("params", JObject(<<
            Member("iv", JString("1f"))>>)),
          Member("message", JString(Encrypt(ImportSecretA, DerivedKey("pw", "5a"))))>>))>>))>>)
KeystoreUnknownKdfText ==
    <<"{", "\"", "c", "r", "y", "p", "t", "o", "\"", ":", "{", "\"", "k", "d", "f", "\"", ":",
      "{", "\"", "f", "u", "n", "c", "t", "i", "o", "n", "\"", ":", "\"", "a", "r", "g", "o",
      "n", "2", "\"", ",", "\"", "p", "a", "r", "a", "m", "s", "\"", ":", "{", "\"", "d", "k",
      "l", "e", "n", "\"", ":", "3", "2", ",", "\"", "n", "\"", ":", "2", ",", "\"", "r", "\"",
      ":", "1", ",", "\"", "p", "\"", ":", "1", ",", "\"", "s", "a", "l", "t", "\"", ":", "\"",
      "5", "a", "\"", "}", "}", ",", "\"", "c", "h", "e", "c", "k", "s", "u", "m", "\"", ":",
      "{", "\"", "m", "e", "s", "s", "a", "g", "e", "\"", ":", "\"", "c", "1", "\"", "}", ",",
      "\"", "c", "i", "p", "h", "e", "r", "\"", ":", "{", "\"", "p", "a", "r", "a", "m", "s",
      "\"", ":", "{", "\"", "i", "v", "\"", ":", "\"", "1", "f", "\"", "}", ",", "\"", "m", "e",
      "s", "s", "a", "g", "e", "\"", ":", "\"", "m", "1", "\"", "}", "}", "}">>
KeystoreUnknownKdfJson ==
    JObject(<<
      Member("crypto", JObject(<<
        Member("kdf", JObject(<<
          Member("function", JString("argon2")),
          Member("params", JObject(<<
            Member("dklen", JNumber(32)),
            Member("n", JNumber(2)),
            Member("r", JNumber(1)),
            Member("p", JNumber(1)),
            Member("salt", JString("5a"))>>))>>)),
        Member("checksum", JObject(<<
          Member("message", JString(Checksum(DerivedKey("pw", "5a"), Encrypt(ImportSecretA, DerivedKey("pw", "5a")))))>>)),
        Member("cipher", JObject(<<
          Member("params", JObject(<<
            Member("iv", JString("1f"))>>)),
          Member("message", JString(Encrypt(ImportSecretA, DerivedKey("pw", "5a"))))>>))>>))>>)
KeystoreEmptyText ==
    <<"{", "}">>
KeystoreEmptyJson ==
    JObject(<<>>)
BodySign ==
    <<"{", "\"", "s", "i", "g", "n", "i", "n", "g", "R", "o", "o", "t", "\"", ":", "\"", "0",
      "x", "0", "1", "\"", "}">>
BodyNotJson ==
    <<"{", "\"", "s", "i", "g", "n", "i", "n", "g", "R", "o", "o", "t", "\"">>
KeystoresOpen ==
    <<"{", "\"", "k", "e", "y", "s", "t", "o", "r", "e", "s", "\"", ":", "[">>
PasswordsOpen ==
    <<"]", ",", "\"", "p", "a", "s", "s", "w", "o", "r", "d", "s", "\"", ":", "[">>
ImportClose ==
    <<"]", "}">>
PasswordPwText ==
    <<"\"", "p", "w", "\"">>
PasswordNoText ==
    <<"\"", "n", "o", "\"">>
HttpTail ==
    <<" ", "H", "T", "T", "P", "/", "1", ".", "1", "\r", "\n">>
HostHeader ==
    <<"H", "o", "s", "t", ":", " ", "x", "\r", "\n">>
AcceptJsonHeader ==
    <<"A", "c", "c", "e", "p", "t", ":", " ", "a", "p", "p", "l", "i", "c", "a", "t", "i", "o",
      "n", "/", "j", "s", "o", "n", "\r", "\n">>
upcheckResponse ==
    <<"H", "T", "T", "P", "/", "1", ".", "1", " ", "2", "0", "0", " ", "O", "K", "\r", "\n",
      "c", "o", "n", "t", "e", "n", "t", "-", "t", "y", "p", "e", ":", " ", "t", "e", "x", "t",
      "/", "p", "l", "a", "i", "n", ";", " ", "c", "h", "a", "r", "s", "e", "t", "=", "u", "t",
      "f", "-", "8", "\r", "\n", "c", "o", "n", "t", "e", "n", "t", "-", "l", "e", "n", "g",
      "t", "h", ":", " ", "0", "\r", "\n", "\r", "\n">>
getKeysResponse ==
    <<"H", "T", "T", "P", "/", "1", ".", "1", " ", "2", "0", "0", " ", "O", "K", "\r", "\n",
      "C", "o", "n", "t", "e", "n", "t", "-", "T", "y", "p", "e", ":", " ", "a", "p", "p", "l",
      "i", "c", "a", "t", "i", "o", "n", "/", "j", "s", "o", "n", "\r", "\n", "C", "o", "n",
      "t", "e", "n", "t", "-", "L", "e", "n", "g", "t", "h", ":", " ">>
signResponse ==
    <<"H", "T", "T", "P", "/", "1", ".", "1", " ", "2", "0", "0", " ", "O", "K", "\r", "\n",
      "C", "o", "n", "t", "e", "n", "t", "-", "T", "y", "p", "e", ":", " ", "a", "p", "p", "l",
      "i", "c", "a", "t", "i", "o", "n", "/", "j", "s", "o", "n", "\r", "\n", "C", "o", "n",
      "t", "e", "n", "t", "-", "L", "e", "n", "g", "t", "h", ":", " ">>
signResponseText ==
    <<"H", "T", "T", "P", "/", "1", ".", "1", " ", "2", "0", "0", " ", "O", "K", "\r", "\n",
      "C", "o", "n", "t", "e", "n", "t", "-", "T", "y", "p", "e", ":", " ", "t", "e", "x", "t",
      "/", "p", "l", "a", "i", "n", "\r", "\n", "C", "o", "n", "t", "e", "n", "t", "-", "L",
      "e", "n", "g", "t", "h", ":", " ">>
badRequest ==
    <<"H", "T", "T", "P", "/", "1", ".", "1", " ", "4", "0", "0", " ", "B", "a", "d", " ", "r",
      "e", "q", "u", "e", "s", "t", " ", "f", "o", "r", "m", "a", "t", "\r", "\n", "C", "o",
      "n", "t", "e", "n", "t", "-", "T", "y", "p", "e", ":", " ", "a", "p", "p", "l", "i", "c",
      "a", "t", "i", "o", "n", "/", "j", "s", "o", "n", "\r", "\n", "C", "o", "n", "t", "e",
      "n", "t", "-", "L", "e", "n", "g", "t", "h", ":", " ", "0", "\r", "\n", "\r", "\n">>
pknf ==
    <<"H", "T", "T", "P", "/", "1", ".", "1", " ", "4", "0", "4", " ", "P", "u", "b", "l", "i",
      "c", " ", "k", "e", "y", " ", "n", "o", "t", " ", "f", "o", "u", "n", "d", "\r", "\n",
      "C", "o", "n", "t", "e", "n", "t", "-", "T", "y", "p", "e", ":", " ", "a", "p", "p", "l",
      "i", "c", "a", "t", "i", "o", "n", "/", "j", "s", "o", "n", "\r", "\n", "C", "o", "n",
      "t", "e", "n", "t", "-", "L", "e", "n", "g", "t", "h", ":", " ", "0", "\r", "\n", "\r",
      "\n">>
SignatureJsonOpen ==
    <<"{", "\"", "s", "i", "g", "n", "a", "t", "u", "r", "e", "\"", ":", " ", "\"", "0", "x">>
SignatureJsonClose ==
    <<"\"", "}">>

RECURSIVE Join(_, _)
Join(texts, sep) ==
    IF Len(texts) = 0 THEN <<>>
    ELSE IF Len(texts) = 1 THEN texts[1]
    ELSE texts[1] \o sep \o Join(Tail(texts), sep)

Repeat(x, n) == [i \in 1..n |-> x]

\* the Import bodies explored: the keystores and the passwords of each
ImportBodies == <<
    [keystores |-> <<"A">>, passwords |-> <<"pw">>],
    [keystores |-> <<"A">>, passwords |-> <<"no">>],
    [keystores |-> <<"A", "B">>, passwords |-> <<"pw", "pw">>],
    [keystores |-> <<"A", "Empty">>, passwords |-> <<"pw", "pw">>],
    [keystores |-> <<"Pbkdf2">>, passwords |-> <<"pw">>],
    [keystores |-> <<"UnknownKdf">>, passwords |-> <<"pw">>],
    [keystores |-> Repeat("A", MAXKeys), passwords |-> Repeat("pw", MAXKeys)],
    [keystores |-> Repeat("Empty", MAXKeys + 1), passwords |-> Repeat("pw", MAXKeys + 1)],
    [keystores |-> Repeat("A", MAXKeys + 1), passwords |-> Repeat("pw", MAXKeys + 1)] >>

KeystoreText(k) ==
    CASE k = "A" -> KeystoreAText
      [] k = "B" -> KeystoreBText
      [] k = "Pbkdf2" -> KeystorePbkdf2Text
      [] k = "UnknownKdf" -> KeystoreUnknownKdfText
      [] k = "Empty" -> KeystoreEmptyText

KeystoreJson(k) ==
    CASE k = "A" -> KeystoreAJson
      [] k = "B" -> KeystoreBJson
      [] k = "Pbkdf2" -> KeystorePbkdf2Json
      [] k = "UnknownKdf" -> KeystoreUnknownKdfJson
      [] k = "Empty" -> KeystoreEmptyJson

PasswordText(w) == IF w = "pw" THEN PasswordPwText ELSE PasswordNoText

ImportText(b) ==
    KeystoresOpen
    \o Join([i \in 1..Len(b.keystores) |-> KeystoreText(b.keystores[i])], <<",">>)
    \o PasswordsOpen
    \o Join([i \in 1..Len(b.passwords) |-> PasswordText(b.passwords[i])], <<",">>)
    \o ImportClose

ImportJson(b) ==
    JObject(<<
      Member("keystores", JArray([i \in 1..Len(b.keystores) |-> KeystoreJson(b.keystores[i])])),
      Member("passwords", JArray([i \in 1..Len(b.passwords) |-> JString(b.passwords[i])]))>>)

ImportTexts == [i \in 1..Len(ImportBodies) |-> ImportText(ImportBodies[i])]
ImportJsons == [i \in 1..Len(ImportBodies) |-> ImportJson(ImportBodies[i])]
BodySignJson == JObject(<<Member("signingRoot", JString("0x01"))>>)

\* cJSON* cJSON_Parse(const char* value): NullJson for text that is not JSON
cJSON_Parse(text) ==
    IF text = BodySign THEN BodySignJson
    ELSE LET hits == {i \in 1..Len(ImportTexts) : ImportTexts[i] = text}
         IN  IF hits = {} THEN NullJson ELSE ImportJsons[SetMin(hits)]

\* a POST request with its headers and a Content-Length that fits the body
Post(path, headers, body) ==
    POSTStr \o <<" ">> \o path \o HttpTail \o headers
    \o ContentLengthColon \o itoa(Len(body)) \o CRLFCRLF \o body

Get(path, headers) == GETStr \o <<" ">> \o path \o HttpTail \o headers \o CRLF

\* the public key of the first generated secret, and one no secret has
SignKeyA == PkHex(1)
SignKeyB == PkHex(NGen + 2)

\* headers that take a request past the 300 bytes of the framing check
PadHeader == <<"X", "-", "P", "a", "d", ":", " ">> \o Repeat("a", 21) \o CRLF
PadHeaders == Join(Repeat(PadHeader, HeaderLimit \div Len(PadHeader)), <<>>)

\* a POST of 300 bytes or more without Content-Length: parseRequest accepts
\* it and getBody finds no body
PostNoLength(path) == POSTStr \o <<" ">> \o path \o HttpTail \o PadHeaders \o CRLF

\* the complete requests explored
Requests ==
    {Get(upcheckStr, HostHeader),
     PostNoLength(keymanagerStr),
     Get(getKeysStr, <<>>),
     Post(signRequestStr \o SignKeyA, AcceptJsonHeader, BodySign),
     Post(signRequestStr \o SignKeyA, <<>>, BodyNotJson),
     Post(signRequestStr \o SignKeyB, <<>>, BodySign)}
    \cup {Post(keymanagerStr, <<>>, ImportTexts[i]) : i \in 1..Len(ImportTexts)}

\* the checks parseRequest makes before it hands the buffer to the parser:
\* -1 or -2 to return at once, 0 to go on
parseRequestFraming(buffer) ==
    LET bufferSize == Len(buffer) IN
    IF ~StartsWithAt(buffer, 0, POSTStr) /\ ~StartsWithAt(buffer, 0, GETStr)
    THEN 0 - 1
    ELSE IF StartsWithAt(buffer, 0, POSTStr)
    THEN LET p == strstrFrom(buffer, 0, ContentLengthColon) IN
         IF p # 0 - 1
         THEN LET q == strchrFrom(buffer, p, "\r") IN
              IF q # 0 - 1
              THEN LET clen == atoi(buffer, p + 16)
                       headlen == q
                       explen == clen + 4 + headlen
                   IN  \* bufferSize is a size_t: a negative explen converts
                       \* to a value above every buffer size
                       IF explen < 0 THEN 0 - 2
                       ELSE IF bufferSize > explen THEN 0 - 1
                       ELSE IF bufferSize < explen THEN 0 - 2
                       ELSE 0
              ELSE IF bufferSize < HeaderLimit THEN 0 - 2 ELSE 0 - 1
         ELSE IF bufferSize < HeaderLimit THEN 0 - 2 ELSE 0
    ELSE LET p == strstrFrom(buffer, 0, CRLFCRLF) IN
         IF p = 0 - 1
         THEN IF bufferSize < HeaderLimit THEN 0 - 2 ELSE 0 - 1
         ELSE 0

\* the classification of a parsed request: the value parseRequest returns
\* and the boardRequest it leaves
parseRequestClassify(buffer, request, reply) ==
    IF request.method = GETStr
    THEN IF request.path = upcheckStr
         THEN [ret |-> 0, reply |-> [reply EXCEPT !.method = upcheck]]
         ELSE IF request.path = getKeysStr
         THEN [ret |-> 0, reply |-> [reply EXCEPT !.method = getKeys]]
         ELSE [ret |-> 0 - 3, reply |-> reply]
    ELSE IF request.method = POSTStr
    THEN LET b == getBody(buffer, request.headers) IN
         IF /\ Len(request.path) = Len(signRequestStr) + keySize
            /\ StartsWithAt(request.path, 0, signRequestStr)
         THEN [ret |-> 0,
               reply |-> [reply EXCEPT
                   !.keyToSign = <<"0", "x">> \o
                       SubSeq(request.path, Len(signRequestStr) + 1,
                              Len(signRequestStr) + keySize),
                   !.json = b.body,
                   !.jsonLen = b.bodyLen,
                   !.method = sign]]
         ELSE IF request.path = keymanagerStr
         THEN [ret |-> 0,
               reply |-> [reply EXCEPT !.json = b.body,
                                       !.jsonLen = b.bodyLen,
                                       !.method = importKey]]
         ELSE [ret |-> 0 - 3, reply |-> reply]
    ELSE [ret |-> 0 - 3, reply |-> reply]

\* values an unassigned request.numHeaders may hold: none, or room for all
NumHeadersGarbage == {0, 100}

\* the complete requests explored are scanned once: what the framing checks
\* and phr_parse_request answer for a buffer depends on the buffer alone
FramingOfRequests == [r \in Requests |-> parseRequestFraming(r)]
ParsedRequests ==
    [r \in Requests |-> [n \in NumHeadersGarbage |-> phr_parse_request(r, n)]]
FramingOf(buffer) ==
    IF buffer \in Requests THEN FramingOfRequests[buffer] ELSE parseRequestFraming(buffer)
ParsedOf(buffer, n) ==
    IF buffer \in Requests /\ n \in NumHeadersGarbage
    THEN ParsedRequests[buffer][n]
    ELSE phr_parse_request(buffer, n)

\* int parseRequest(char* buffer, size_t bufferSize, struct boardRequest* reply).
\* numHeadersIn is the value the unassigned request.numHeaders happens to
\* hold when phr_parse_request reads it as the capacity of the header array.
parseRequest(buffer, reply, numHeadersIn) ==
    IF FramingOf(buffer) # 0
    THEN [ret |-> FramingOf(buffer), reply |-> reply]
    ELSE LET request == ParsedOf(buffer, numHeadersIn) IN
         IF request.ret < 0 THEN [ret |-> request.ret, reply |-> reply]
         ELSE parseRequestClassify(buffer, request, reply)

\* ------------------------------------------------------------------------
\* Responses (src/lib/httpRemote.h)
\* ------------------------------------------------------------------------

\* strlen of a character array of n bytes that may hold no NUL
Strnlen(s) ==
    LET nuls == {i \in 1..Len(s) : s[i] = NUL}
    IN  IF nuls = {} THEN Len(s) ELSE SetMin(nuls) - 1

\* strncpy(dst, src, 96): the characters before the first NUL, then NULs
strncpy96(src) ==
    [i \in 1..keySize |-> IF i <= Strnlen(src) THEN src[i] ELSE NUL]

\* what strncat(dst, src, n) appends: at most n characters, none past a NUL
strncatPart(src, n) == SubSeq(src, 1, Min(n, Strnlen(src)))

\* strncmp(a, b, 96) == 0 for a C string a and a 96-byte array b
strncmp96Equal(a, b) ==
    \/ \A i \in 1..keySize : CharAt(a, i - 1) = b[i] /\ b[i] # NUL
    \/ \E z \in 1..keySize :
          /\ CharAt(a, z - 1) = NUL /\ b[z] = NUL
          /\ \A i \in 1..(z - 1) : CharAt(a, i - 1) = b[i]

\* int copyKeys(struct boardRequest* request): [ret, request]
copyKeys(request) ==
    LET ksize == get_keystore_size IN
    IF ksize = 0
    THEN [ret |-> 0 - 1, request |-> [request EXCEPT !.nKeys = 0]]
    ELSE [ret |-> 0,
          request |-> [request EXCEPT
              !.nKeys = ksize,
              !.publicKeys = [i \in 1..MAXKeys |->
                  IF i <= ksize THEN strncpy96(getkeys[i]) ELSE request.publicKeys[i]]]]

\* int checkKey(struct boardRequest* request): [ret, request]
checkKey(request) ==
    LET c == copyKeys(request) IN
    IF c.ret = 0 - 1 THEN c
    ELSE IF \E i \in 1..c.request.nKeys :
                strncmp96Equal(request.keyToSign, c.request.publicKeys[i])
    THEN [ret |-> 0, request |-> c.request]
    ELSE [ret |-> 0 - 1, request |-> c.request]

upcheckResponseStr == upcheckResponse
pknotfoundResponseStr == pknf

\* the lines of the key list from entry i on
RECURSIVE KeyLines(_, _)
KeyLines(request, i) ==
    IF i >= request.nKeys THEN <<>>
    ELSE <<"\"", "0", "x">> \o strncatPart(request.publicKeys[i + 1], keySize) \o <<"\"">>
         \o (IF i + 1 < request.nKeys THEN <<",">> ELSE <<>>)
         \o <<"\n">> \o KeyLines(request, i + 1)

\* int getKeysResponseStr(char* buffer, struct boardRequest* request): buffer
getKeysResponseStr(request) ==
    LET jsonKeysSize == IF request.nKeys = 0 THEN 3
                        ELSE 6 * request.nKeys - 1 + request.nKeys * keySize + 3
    IN  getKeysResponse \o itoa(jsonKeysSize) \o <<"\n", "\n", "[", "\n">>
        \o KeyLines(request, 0) \o <<"]">>

\* the point of G2 a signing root hashes to
HashToG2(msg) == IF msg = "0x01" THEN 1 ELSE 2

\* int signature(char* pk, char* msg, char* signat): looks the key up with
\* pk_in_keystore, signs with sign_pk and writes the signature as 192 hex
\* characters.  [ret, signat, sk_sign, sig]
signature(pk, msg) ==
    IF pk_in_keystore_ret(pk, 0) # 0
    THEN [ret |-> 0 - 1, signat |-> <<>>, sk_sign |-> sk_sign, sig |-> sig]
    ELSE LET s == pk_in_keystore_sk_sign(pk, 0)
             g == blst_sign_pk_in_g1(HashToG2(msg), s)
         IN  [ret |-> 0, signat |-> hex_encode(g), sk_sign |-> s, sig |-> g]

\* the C string a char* of the boardRequest points at; wild is what an
\* unassigned pointer happens to point at.  A null pointer reads as the
\* empty text: cJSON_Parse answers NULL for both.
TextAt(buf, ptr, wild) ==
    IF ptr = NullPtr THEN <<>>
    ELSE IF ptr = Uninit THEN wild
    ELSE SubSeq(buf, ptr + 1, Len(buf))

\* int signResponseStr(char* buffer, struct boardRequest* request):
\* [ret, buffer, sk_sign, sig]; ret is strlen(buffer) or -1
signResponseStr(buf, request, wild) ==
    LET text == TextAt(buf, request.json, wild)
        json == cJSON_Parse(text)
        signingroot == cJSON_GetObjectItemCaseSensitive(json, "signingRoot")
        key == SubSeq(request.keyToSign, 1, Min(keySize, Len(request.keyToSign)))
        s == signature(key, signingroot.valuestring)
        fail == [ret |-> 0 - 1, buffer |-> <<>>, sk_sign |-> sk_sign, sig |-> sig]
        reply == IF request.acceptType = textPlain
                 THEN <<"0", "x">> \o strncatPart(s.signat, MAXSizeEthereumSignature)
                 ELSE SignatureJsonOpen \o strncatPart(s.signat, 192) \o SignatureJsonClose
        head == IF request.acceptType = textPlain THEN signResponseText ELSE signResponse
        out == head \o itoa(Len(reply)) \o <<"\n", "\n">> \o reply
    IN  IF IsNull(json) THEN fail
        ELSE IF NotOfType(signingroot, "String") THEN fail
        ELSE IF s.ret # 0 THEN [fail EXCEPT !.sk_sign = s.sk_sign, !.sig = s.sig]
        ELSE IF request.acceptType \notin {textPlain, applicationJson}
        THEN [fail EXCEPT !.sk_sign = s.sk_sign, !.sig = s.sig]
        ELSE [ret |-> Len(out), buffer |-> out, sk_sign |-> s.sk_sign, sig |-> s.sig]

\* what a write past the end of keystores[] or passwords[] does: it lands in
\* stack that is not in use, or on keystores[0], or on what the function
\* needs to return
StackSmash == {"spared", "corrupted", "crashed"}

\* int httpImportFromKeystore(char* body): its locals when it returns; ret is
\* the value returned.  The arrays keystores and passwords have MAXKeys
\* entries; an entry collected beyond them is written past their end, with
\* the outcome smash.
httpImportFromKeystore(body, stack, smash) ==
    LET json == cJSON_Parse(body)
        keystoresJson == cJSON_GetObjectItemCaseSensitive(json, "keystores")
        passwordsJson == cJSON_GetObjectItemCaseSensitive(json, "passwords")
        nKeysAlreadyStored == get_keystore_size
        ks == Children(keystoresJson)
        pws == Children(passwordsJson)
        fail == [ret |-> 0 - 1, nKeystores |-> 0, nPasswords |-> 0, steps |-> <<>>,
                 decryption_key |-> ZeroKey, private_key |-> JunkScalar,
                 crashed |-> FALSE]
        \* the entries the two while loops collect before they end or return
        nKeystores == Min(Len(ks), MAXKeys + nKeysAlreadyStored)
        badPw == {i \in 1..Len(pws) : pws[i].type # "String"}
        nPasswords == Min(IF badPw = {} THEN Len(pws) ELSE SetMin(badPw) - 1,
                          MAXKeys + nKeysAlreadyStored)
        overflow == nKeystores > MAXKeys \/ nPasswords > MAXKeys
        collected == IF overflow /\ smash = "corrupted"
                     THEN [ks EXCEPT ![1] = NullJson] ELSE ks
        imp == import_from_keystore(collected,
                                    [i \in 1..Len(pws) |-> pws[i].valuestring],
                                    nKeystores, stack)
    IN  IF IsNull(json) THEN fail
        ELSE IF IsNull(keystoresJson) \/ Len(ks) = 0 THEN fail
        ELSE IF IsNull(passwordsJson) \/ Len(pws) = 0 THEN fail
        ELSE IF Len(ks) > MAXKeys + nKeysAlreadyStored
        THEN [fail EXCEPT !.nKeystores = nKeystores,
                          !.crashed = nKeystores > MAXKeys /\ smash = "crashed"]
        ELSE IF nPasswords < Len(pws)
        THEN [fail EXCEPT !.nKeystores = nKeystores, !.nPasswords = nPasswords,
                          !.crashed = overflow /\ smash = "crashed"]
        ELSE IF nKeystores # nPasswords
        THEN [fail EXCEPT !.nKeystores = nKeystores, !.nPasswords = nPasswords,
                          !.crashed = overflow /\ smash = "crashed"]
        ELSE [ret |-> IF imp.error # 0 THEN 0 - 1 ELSE 0,
              nKeystores |-> nKeystores, nPasswords |-> nPasswords,
              steps |-> imp.steps, decryption_key |-> imp.decryption_key,
              private_key |-> imp.private_key,
              crashed |-> overflow /\ smash = "crashed"]

\* ------------------------------------------------------------------------
\* The serving loop: one request is parsed, answered and sent before the
\* next is read; the secure entry points are called between requests.
\* ------------------------------------------------------------------------
NoImport == [ret |-> 0, nKeystores |-> 0, nPasswords |-> 0, steps |-> <<>>,
             decryption_key |-> ZeroKey, private_key |-> JunkScalar,
             crashed |-> FALSE]

\* what the caller may have left in acceptType, which parseRequest never sets
AcceptTypes == {textPlain, applicationJson}

HttpInit ==
    /\ recvBuffer = <<>>
    /\ boardRequest \in
         {[method |-> sign, acceptType |-> a, json |-> NullPtr, keyToSign |-> <<>>,
           publicKeys |-> [i \in 1..MAXKeys |-> NulBlock], nKeys |-> 0, jsonLen |-> 0]
          : a \in AcceptTypes}
    /\ response = <<>>
    /\ ret = 0
    /\ import = NoImport
    /\ pc = "idle"

Init == KeystoreInit /\ HttpInit
\* the same, for checks in which no response is written
InitKeystore == Init /\ boardRequest.acceptType = textPlain

\* texts an unassigned body pointer may point at: bytes that are no JSON, or
\* the body an earlier request left in memory
WildTexts == {BodyNotJson, BodySign, ImportTexts[1]}
\* the choice matters only when getBody left the pointer unassigned
WildMatters(wild) == boardRequest.json = Uninit \/ wild = BodyNotJson
\* a write past the arrays needs a limit above MAXKeys
SmashMatters(smash) == get_keystore_size > 0 \/ smash = "spared"
\* what the unassigned decryption_key array may hold: bytes that are no key,
\* or the key a previous import left in the same stack slots
StackKeys == {DerivedKey("garbage", "garbage"), DerivedKey("pw", "5a")}

\* a complete request has been read; parseRequest(recvBuffer, bufferSize, &boardRequest)
parseRequestStep(request, numHeadersIn) ==
    /\ pc = "idle"
    /\ LET r == parseRequest(request, boardRequest, numHeadersIn) IN
       /\ recvBuffer' = request
       /\ boardRequest' = r.reply
       /\ ret' = r.ret
       /\ pc' = IF r.ret = 0 THEN "parsed" ELSE "rejected"
    /\ UNCHANGED <<response, import>>
    /\ UNCHANGED ksvars

\* int dumpHttpResponse(char* buffer, struct boardRequest* request), one
\* definition for each case of its switch; ret is the value returned
dumpSign(wild) ==
    /\ pc = "parsed"
    /\ WildMatters(wild)
    /\ boardRequest.method = sign
    /\ InBounds
    /\ pc' = "responded"
    /\ \E k \in {checkKey(boardRequest)} :
          /\ boardRequest' = k.request
          /\ IF k.ret = 0 - 1
             THEN /\ response' = pknotfoundResponseStr
                  /\ ret' = Len(pknotfoundResponseStr)
                  /\ UNCHANGED <<sk_sign, sig>>
             ELSE \E s \in {signResponseStr(recvBuffer, k.request, wild)} :
                  /\ response' = s.buffer
                  /\ ret' = s.ret
                  /\ sk_sign' = s.sk_sign
                  /\ sig' = s.sig
    /\ UNCHANGED <<import, recvBuffer, sk, secret_keys_store,
                   public_keys_hex_store, keystore_size, drbg>>

dumpUpcheck ==
    /\ pc = "parsed"
    /\ boardRequest.method = upcheck
    /\ pc' = "responded"
    /\ response' = upcheckResponseStr
    /\ ret' = Len(upcheckResponseStr)
    /\ UNCHANGED <<boardRequest, import, recvBuffer>>
    /\ UNCHANGED ksvars

\* dumpGetKeys as it would be if getkeys moved the keys out of the store
dumpGetKeysTaking ==
    /\ pc = "parsed"
    /\ boardRequest.method = getKeys
    /\ InBounds
    /\ pc' = "responded"
    /\ boardRequest' = copyKeys(boardRequest).request
    /\ response' = getKeysResponseStr(copyKeys(boardRequest).request)
    /\ ret' = Len(getKeysResponseStr(copyKeys(boardRequest).request))
    /\ public_keys_hex_store' = [i \in 1..K |-> NulBlock]
    /\ UNCHANGED <<import, recvBuffer, sk, secret_keys_store, sk_sign,
                   keystore_size, drbg, sig>>

dumpGetKeys ==
    /\ pc = "parsed"
    /\ boardRequest.method = getKeys
    /\ InBounds
    /\ pc' = "responded"
    /\ boardRequest' = copyKeys(boardRequest).request
    /\ response' = getKeysResponseStr(copyKeys(boardRequest).request)
    /\ ret' = Len(getKeysResponseStr(copyKeys(boardRequest).request))
    /\ UNCHANGED <<import, recvBuffer>>
    /\ UNCHANGED ksvars

\* dumpImportKey as it would be if each decrypted secret went into the
\* keystore as soon as it was decrypted
dumpImportKeyInserting(wild, stack, smash) ==
    /\ pc = "parsed"
    /\ WildMatters(wild)
    /\ SmashMatters(smash)
    /\ boardRequest.method = importKey
    /\ \E h \in {httpImportFromKeystore(
                    TextAt(recvBuffer, boardRequest.json, wild), stack, smash)} :
           /\ import' = h
           /\ pc' = IF h.crashed THEN "crashed" ELSE "responded"
           /\ IF h.crashed
              THEN UNCHANGED <<response, ret>>
              ELSE IF h.ret = 0
              THEN /\ response' = getKeysResponseStr(boardRequest)
                   /\ ret' = Len(getKeysResponseStr(boardRequest))
              ELSE /\ response' = <<>>
                   /\ ret' = h.ret
           /\ IF h.private_key # JunkScalar /\ keystore_size < K
              THEN /\ secret_keys_store' =
                        [secret_keys_store EXCEPT ![keystore_size + 1] = h.private_key]
                   /\ keystore_size' = keystore_size + 1
              ELSE UNCHANGED <<secret_keys_store, keystore_size>>
    /\ UNCHANGED <<boardRequest, recvBuffer, sk, sk_sign, public_keys_hex_store,
                   drbg, sig>>

dumpImportKey(wild, stack, smash) ==
    /\ pc = "parsed"
    /\ WildMatters(wild)
    /\ SmashMatters(smash)
    /\ boardRequest.method = importKey
    /\ \E h \in {httpImportFromKeystore(
                    TextAt(recvBuffer, boardRequest.json, wild), stack, smash)} :
           /\ import' = h
           /\ pc' = IF h.crashed THEN "crashed" ELSE "responded"
           /\ IF h.crashed
              THEN UNCHANGED <<response, ret>>
              ELSE IF h.ret = 0
              THEN /\ response' = getKeysResponseStr(boardRequest)
                   /\ ret' = Len(getKeysResponseStr(boardRequest))
              ELSE /\ response' = <<>>
                   /\ ret' = h.ret
    /\ UNCHANGED <<boardRequest, recvBuffer>>
    /\ UNCHANGED ksvars

dumpHttpResponse ==
    \/ \E wild \in WildTexts : dumpSign(wild)
    \/ dumpUpcheck
    \/ dumpGetKeys
    \/ \E wild \in WildTexts, stack \in StackKeys, smash \in StackSmash :
          dumpImportKey(wild, stack, smash)

\* The caller sends what it has to send and takes the buffers back.  Of the
\* boardRequest it keeps, parseRequest writes method, json, jsonLen and
\* keyToSign before dumpHttpResponse reads them, so their old values are not
\* carried on; the key list and acceptType are never written by parseRequest
\* and stay.  The entries of publicKeys past nKeys are read by nothing until
\* copyKeys has written them again, and are not carried on either.
sendResponse ==
    /\ pc \in {"rejected", "responded"}
    /\ pc' = "idle"
    /\ recvBuffer' = <<>>
    /\ response' = <<>>
    /\ ret' = 0
    /\ import' = NoImport
    /\ boardRequest' = [boardRequest EXCEPT
           !.method = sign, !.json = NullPtr, !.jsonLen = 0, !.keyToSign = <<>>,
           !.publicKeys = [i \in 1..MAXKeys |->
               IF i <= boardRequest.nKeys THEN @[i] ELSE NulBlock]]
    /\ UNCHANGED ksvars

\* a secure entry point called between two requests
Idle == pc = "idle"

\* the caller of ikm_sk derives the public key of the new secret and stores
\* it, with or without the 0x in front; requests are served in between
NewKeyHex == {PkHex(sk), PkHex0x(sk)}
NewKeyPending == keystore_size > 0 /\ StoredHex(keystore_size - 1) = NulBlock

Next ==
    \/ Idle /\ keystore_size < MaxServed /\ ikm_sk /\ UNCHANGED httpvars
    \/ Idle /\ NewKeyPending /\ (\E h \in NewKeyHex : store_pk(h)) /\ UNCHANGED httpvars
    \/ Idle /\ reset /\ UNCHANGED httpvars
    \/ \E request \in Requests, n \in NumHeadersGarbage : parseRequestStep(request, n)
    \/ dumpHttpResponse
    \/ sendResponse

Spec == Init /\ [][Next]_vars

\* ------------------------------------------------------------------------
\* One connection read in pieces: parseRequest is called on the buffer after
\* every read, and the connection goes on reading while it answers -2.
\* ------------------------------------------------------------------------
\* valid POST requests, Content-Length their last header
ValidPosts ==
    {Post(signRequestStr \o SignKeyA, AcceptJsonHeader, BodySign),
     Post(keymanagerStr, <<>>, ImportTexts[1])}

\* a valid POST whose Content-Length is not its last header
PostLengthFirst ==
    POSTStr \o <<" ">> \o signRequestStr \o SignKeyA \o HttpTail
    \o ContentLengthColon \o itoa(Len(BodySign)) \o CRLF \o HostHeader \o CRLF
    \o BodySign

\* what the peer sends: a request, or a request and bytes after it
TrailingBytes == <<"G">>
Streams ==
    ValidPosts \cup {PostLengthFirst}
    \cup {r \o TrailingBytes : r \in ValidPosts}

\* the sizes a read may bring the buffer to: one byte more, four bytes more,
\* or all the peer sent
ReadSizes(stream) ==
    {n \in {Len(recvBuffer) + 1, Len(recvBuffer) + 4, Len(stream)} :
        n > Len(recvBuffer) /\ n <= Len(stream)}

IsPrefix(s, whole) == Len(s) <= Len(whole) /\ s = SubSeq(whole, 1, Len(s))

readBytes(stream, n, numHeadersIn) ==
    /\ pc \in {"idle", "reading"}
    /\ IsPrefix(recvBuffer, stream)
    /\ LET r == parseRequest(SubSeq(stream, 1, n), boardRequest, numHeadersIn) IN
       /\ recvBuffer' = SubSeq(stream, 1, n)
       /\ boardRequest' = r.reply
       /\ ret' = r.ret
       /\ pc' = IF r.ret = 0 THEN "parsed"
                ELSE IF r.ret = 0 - 2 THEN "reading"
                ELSE "rejected"
    /\ UNCHANGED <<response, import>>
    /\ UNCHANGED ksvars

\* the connection is done with: the request was handed on, or refused
closeConnection ==
    /\ pc \in {"parsed", "rejected"}
    /\ pc' = "idle"
    /\ recvBuffer' = <<>>
    /\ ret' = 0
    /\ boardRequest' = [boardRequest EXCEPT
           !.method = sign, !.json = NullPtr, !.jsonLen = 0, !.keyToSign = <<>>,
           !.publicKeys = [i \in 1..MAXKeys |->
               IF i <= boardRequest.nKeys THEN @[i] ELSE NulBlock]]
    /\ UNCHANGED <<response, import>>
    /\ UNCHANGED ksvars

FramingNext ==
    \/ \E stream \in Streams, numHeadersIn \in NumHeadersGarbage :
          \E n \in ReadSizes(stream) : readBytes(stream, n, numHeadersIn)
    \/ closeConnection

SpecFraming == InitKeystore /\ [][FramingNext]_vars

\* the secure entry points alone, called in any order
KeystoreNext ==
    \/ ikm_sk /\ UNCHANGED httpvars
    \/ (\E s \in Scalars : import_sk(s)) /\ UNCHANGED httpvars
    \/ (\E h \in PkInputs : store_pk(h)) /\ UNCHANGED httpvars
    \/ (\E h \in PkInputs : pk_in_keystore(h, 0)) /\ UNCHANGED httpvars
    \/ (\E s \in Scalars : pk_in_keystore(<<"0", "x">> \o PkHex(s), 2))
          /\ UNCHANGED httpvars
    \/ (\E m \in Hashes : sign_pk(m)) /\ UNCHANGED httpvars
    \/ reset /\ UNCHANGED httpvars

SpecKeystore == InitKeystore /\ [][KeystoreNext]_vars

\* ------------------------------------------------------------------------
\* Requests of every method, path and header spelling, served one at a time
\* ------------------------------------------------------------------------
\* a request line with its headers, ended by the blank line
RequestHead(method, path, headers) ==
    method \o <<" ">> \o path \o HttpTail \o headers \o CRLF

\* a POST whose length header is spelled lengthName
PostAs(lengthName, path, headers, body) ==
    POSTStr \o <<" ">> \o path \o HttpTail \o headers
    \o lengthName \o <<":", " ">> \o itoa(Len(body)) \o CRLFCRLF \o body

ContentLengthLower == <<"c", "o", "n", "t", "e", "n", "t", "-", "l", "e", "n", "g", "t", "h">>
ContentLengthUpper == <<"C", "O", "N", "T", "E", "N", "T", "-", "L", "E", "N", "G", "T", "H">>
AcceptAnyHeader == <<"A", "c", "c", "e", "p", "t", ":", " ", "*", "/", "*", "\r", "\n">>
AcceptTextHeader == <<"A", "c", "c", "e", "p", "t", ":", " ", "t", "e", "x", "t", "/", "p", "l", "a", "i", "n", "\r", "\n">>
AcceptLowerJsonHeader == <<"a", "c", "c", "e", "p", "t", ":", " ", "a", "p", "p", "l", "i", "c", "a", "t", "i", "o", "n", "/", "j", "s", "o", "n", "\r", "\n">>
AcceptUpperJsonHeader == <<"A", "C", "C", "E", "P", "T", ":", " ", "a", "p", "p", "l", "i", "c", "a", "t", "i", "o", "n", "/", "j", "s", "o", "n", "\r", "\n">>
PUTStr == <<"P", "U", "T">>
GETXStr == <<"G", "E", "T", "X">>
POSTSStr == <<"P", "O", "S", "T", "S">>
UpcheckCapital == <<"/", "U", "p", "c", "h", "e", "c", "k">>
Slash == <<"/">>

\* the four requests the server knows
KnownRequests ==
    {Get(upcheckStr, HostHeader),
     Get(getKeysStr, <<>>),
     Post(signRequestStr \o SignKeyA, AcceptJsonHeader, BodySign),
     Post(keymanagerStr, <<>>, ImportTexts[1])}

\* a known path under the other method, another method, a path that is
\* not one of the four
UnknownRequests ==
    {Get(keymanagerStr, <<>>),
     Get(signRequestStr \o SignKeyA, <<>>),
     Post(upcheckStr, <<>>, BodySign),
     Post(getKeysStr, <<>>, BodySign),
     RequestHead(PUTStr, upcheckStr, <<>>),
     RequestHead(GETXStr, upcheckStr, <<>>),
     POSTSStr \o SubSeq(Post(keymanagerStr, <<>>, BodySign), 5, Len(Post(keymanagerStr, <<>>, BodySign))),
     Get(UpcheckCapital, <<>>),
     Get(upcheckStr \o Slash, <<>>),
     Post(signRequestStr \o SubSeq(SignKeyA, 1, keySize - 1), <<>>, BodySign),
     Post(signRequestStr \o SignKeyA \o <<"0">>, <<>>, BodySign),
     Post(signRequestStr \o SignKeyA \o Slash \o <<"x">>, <<>>, BodySign),
     Post(keymanagerStr \o Slash, <<>>, BodySign)}

\* Sign requests for the first key with each Accept header, and with none
AcceptRequests ==
    {Post(signRequestStr \o SignKeyA, h, BodySign) :
        h \in {AcceptJsonHeader, AcceptAnyHeader, AcceptTextHeader, <<>>}}

\* requests with a header name in another letter case, each with the same
\* request in the canonical spelling
CasePairs ==
    {<<PostAs(ContentLengthLower, signRequestStr \o SignKeyA, <<>>, BodySign),
       Post(signRequestStr \o SignKeyA, <<>>, BodySign)>>,
     <<PostAs(ContentLengthUpper, signRequestStr \o SignKeyA, <<>>, BodySign),
       Post(signRequestStr \o SignKeyA, <<>>, BodySign)>>,
     <<PostAs(ContentLengthLower, keymanagerStr, <<>>, ImportTexts[1]),
       Post(keymanagerStr, <<>>, ImportTexts[1])>>,
     <<PostAs(ContentLengthUpper, keymanagerStr, <<>>, ImportTexts[1]),
       Post(keymanagerStr, <<>>, ImportTexts[1])>>,
     <<PostAs(ContentLengthLower, keymanagerStr, PadHeaders, ImportTexts[1]),
       Post(keymanagerStr, PadHeaders, ImportTexts[1])>>,
     <<Post(signRequestStr \o SignKeyA, AcceptLowerJsonHeader, BodySign),
       Post(signRequestStr \o SignKeyA, AcceptJsonHeader, BodySign)>>,
     <<Post(signRequestStr \o SignKeyA, AcceptUpperJsonHeader, BodySign),
       Post(signRequestStr \o SignKeyA, AcceptJsonHeader, BodySign)>>}

\* headers whose name has the 14 characters of Content-Length
AcceptCharsetHeader == <<"A", "c", "c", "e", "p", "t", "-", "C", "h", "a", "r", "s", "e", "t", ":", " ", "u", "t", "f", "-", "8", "\r", "\n">>
RequestSizeHeader == <<"X", "-", "R", "e", "q", "u", "e", "s", "t", "-", "S", "i", "z", "e", ":", " ", "5", "\r", "\n">>

\* valid POST requests in which such a header stands before Content-Length
BodyRequests ==
    {Post(signRequestStr \o SignKeyA, AcceptCharsetHeader, BodySign),
     Post(signRequestStr \o SignKeyA, RequestSizeHeader, BodySign)}

ParseRequests ==
    KnownRequests \cup UnknownRequests \cup AcceptRequests \cup {PostLengthFirst}
    \cup {p[1] : p \in CasePairs} \cup BodyRequests

ParseNext ==
    \/ Idle /\ keystore_size < MaxServed /\ ikm_sk /\ UNCHANGED httpvars
    \/ Idle /\ NewKeyPending /\ (\E h \in NewKeyHex : store_pk(h)) /\ UNCHANGED httpvars
    \/ \E request \in ParseRequests, n \in NumHeadersGarbage : parseRequestStep(request, n)
    \/ dumpHttpResponse
    \/ sendResponse

SpecParse == Init /\ [][ParseNext]_vars

\* ------------------------------------------------------------------------
\* Requests whose header block passes the 300 bytes of the framing check
\* before its blank line arrives, read in pieces
\* ------------------------------------------------------------------------
GetLong == Get(upcheckStr, PadHeaders)
LongHeaderStreams ==
    {GetLong,
     PostNoLength(keymanagerStr),
     Post(keymanagerStr, PadHeaders, ImportTexts[1])}

HeadersNext ==
    \/ \E stream \in LongHeaderStreams, numHeadersIn \in NumHeadersGarbage :
          \E n \in ReadSizes(stream) : readBytes(stream, n, numHeadersIn)
    \/ closeConnection

SpecHeaders == InitKeystore /\ [][HeadersNext]_vars

\* ------------------------------------------------------------------------
\* Properties
\* ------------------------------------------------------------------------
Ok200 == <<"H", "T", "T", "P", "/", "1", ".", "1", " ", "2", "0", "0">>
Is200(resp) == StartsWithAt(resp, 0, Ok200)

\* the number in the content-length header of a response
LengthField == <<"e", "n", "g", "t", "h", ":", " ">>
ContentLengthOf(resp) == atoi(resp, strstrFrom(resp, 0, LengthField) + Len(LengthField))

\* the bytes after the blank line that ends the header block
BodyOf(resp) ==
    LET crlf == strstrFrom(resp, 0, CRLFCRLF)
        lf == strstrFrom(resp, 0, <<"\n", "\n">>)
        start == IF crlf >= 0 /\ (lf < 0 \/ crlf < lf) THEN crlf + 4 ELSE lf + 2
    IN  SubSeq(resp, start + 1, Len(resp))

\* the 96 hex characters a Sign request names after the 0x of its path
RequestedHex == SubSeq(boardRequest.keyToSign, 3, keySize + 2)

\* a key pair of the keystore has this public key, stored as plain hex
StoredPlain(hex) ==
    \E i \in 0..(Min(keystore_size, K) - 1) :
        StoredHex(i) = hex /\ PkHex(secret_keys_store[i + 1]) = hex

\* a key pair of the keystore has this public key, by its secret or its hex
InKeystore(hex) ==
    \E i \in 0..(Min(keystore_size, K) - 1) :
        StoredHex(i) = hex \/ PkHex(secret_keys_store[i + 1]) = hex

\* the JSON the request at hand carries, when its body was found
RequestJson ==
    IF boardRequest.json >= 0
    THEN cJSON_Parse(TextAt(recvBuffer, boardRequest.json, <<>>))
    ELSE NullJson

ValidSigningRoot ==
    ~NotOfType(cJSON_GetObjectItemCaseSensitive(RequestJson, "signingRoot"), "String")

\* C1: after any sequence of keystore operations the size stays within 0..K;
\* an insertion at size K fails and changes nothing.
C1_SizeWithinK == keystore_size \in 0..K

\* C2: for every index below the size, the public key getkeys returns for
\* the slot is the one derived from the secret stored in the slot.
C2_PublicKeyOfEverySlot ==
    \A i \in 0..(Min(get_keystore_size, K) - 1) :
        getkeys[i + 1] = PkHex(secret_keys_store[i + 1])

\* C3: after reset() the size is 0 and every secret is zero: the entries of
\* secret_keys_store and the working copies sk and sk_sign.
C3_ResetZeroizesAll ==
    [][reset => /\ keystore_size' = 0
                /\ \A i \in 1..K : secret_keys_store'[i] = ZeroScalar
                /\ sk' = ZeroScalar
                /\ sk_sign' = ZeroScalar]_vars

\* C4: a Sign request for a key pair stored with its public key as 96 hex
\* characters, carrying a valid signingRoot, is answered with a 200 signature
\* response and never with the 404.
C4_StoredKeySigns ==
    (/\ pc = "responded"
     /\ boardRequest.method = sign
     /\ StoredPlain(RequestedHex)
     /\ ValidSigningRoot)
    => (Is200(response) /\ response # pknf)

\* C5: a Sign request is answered with the 404 pknf response exactly when
\* its public key is not in the keystore, and no other request is.
C5_NotFoundOnlyForUnknownKey ==
    pc = "responded" =>
        /\ boardRequest.method = sign =>
              (response = pknf <=> ~InKeystore(RequestedHex))
        /\ response = pknf => boardRequest.method = sign

\* C6: when an Import request succeeds for n keystores the keystore size has
\* grown by n and the decrypted secret is in the keystore.
C6_ImportInserts ==
    [][(/\ pc = "parsed"
        /\ boardRequest.method = importKey
        /\ pc' = "responded"
        /\ import'.ret = 0)
       => /\ keystore_size' = keystore_size + import'.nKeystores
          /\ \E i \in 1..K : secret_keys_store'[i] = import'.private_key]_vars

\* C7: when an Import request fails, the request returns an error and the
\* keystore size, every stored secret and every stored public key are what
\* they were before it (ListKeys answers from the size and the stored public
\* keys alone, so it answers as before).
C7_FailedImportChangesNothing ==
    [][(/\ pc = "parsed"
        /\ boardRequest.method = importKey
        /\ pc' = "responded"
        /\ import'.ret # 0)
       => /\ ret' < 0
          /\ keystore_size' = keystore_size
          /\ secret_keys_store' = secret_keys_store
          /\ public_keys_hex_store' = public_keys_hex_store]_vars

\* a batch whose first keystore decrypted and whose second failed has been
\* refused while the keystore held a key
C7_Witness ==
    /\ pc = "responded"
    /\ boardRequest.method = importKey
    /\ import.ret # 0
    /\ Len(import.steps) > 4
    /\ keystore_size > 0

\* C8: an Import request with more keystores or passwords than K minus the
\* current size is refused before any keystore is processed, and no request
\* collects more than MAXKeys entries.
C8_ImportRespectsCapacity ==
    (/\ pc \in {"responded", "crashed"}
     /\ boardRequest.method = importKey
     /\ ~IsNull(RequestJson))
    => LET n == Len(Children(cJSON_GetObjectItemCaseSensitive(RequestJson, "keystores")))
           m == Len(Children(cJSON_GetObjectItemCaseSensitive(RequestJson, "passwords")))
       IN  /\ import.nKeystores <= MAXKeys
           /\ import.nPasswords <= MAXKeys
           /\ (n > K - keystore_size \/ m > K - keystore_size)
                 => (import.ret # 0 /\ import.steps = <<>>)

\* C9: in every 200 response the number in the Content-Length header is the
\* length of the body after the header block.
C9_ContentLengthIsBodyLength ==
    (pc = "responded" /\ Is200(response))
    => ContentLengthOf(response) = Len(BodyOf(response))

\* C10: parseRequest answers -2 for every proper prefix of a valid POST, 0
\* for the whole of it and -1 when bytes follow it.
C10_Framing ==
    \A r \in ValidPosts :
        pc \in {"reading", "parsed", "rejected"} =>
            /\ (IsPrefix(recvBuffer, r) /\ Len(recvBuffer) < Len(r)) => ret = 0 - 2
            /\ recvBuffer = r => ret = 0
            /\ (IsPrefix(r, recvBuffer) /\ Len(recvBuffer) > Len(r)) => ret = 0 - 1

\* the method and the path of a request line
MethodOf(buf) == SubSeq(buf, 1, ScanTo(buf, 0, {" "}))
PathOf(buf) ==
    LET m == ScanTo(buf, 0, {" "})
    IN  SubSeq(buf, m + 2, ScanTo(buf, m + 1, {" "}))

\* the handler the method and path of a request select, NoHandler for none
NoHandler == 0 - 1
HandlerOf(buf) ==
    IF MethodOf(buf) = GETStr /\ PathOf(buf) = upcheckStr THEN upcheck
    ELSE IF MethodOf(buf) = GETStr /\ PathOf(buf) = getKeysStr THEN getKeys
    ELSE IF /\ MethodOf(buf) = POSTStr
            /\ Len(PathOf(buf)) = Len(signRequestStr) + keySize
            /\ StartsWithAt(PathOf(buf), 0, signRequestStr) THEN sign
    ELSE IF MethodOf(buf) = POSTStr /\ PathOf(buf) = keymanagerStr THEN importKey
    ELSE NoHandler

\* C11: parseRequest answers 0 and sets the handler for GET /upcheck, GET
\* /api/v1/eth2/publicKeys, POST /api/v1/eth2/sign/0x + 96 characters and
\* POST /eth/v1/keystores; for every other method and path it answers an
\* error and leaves the handler method as it was.
C11_ClassifiesByMethodAndPath ==
    [][(pc = "idle" /\ pc' \in {"parsed", "rejected"})
       => IF HandlerOf(recvBuffer') # NoHandler
          THEN ret' = 0 /\ boardRequest'.method = HandlerOf(recvBuffer')
          ELSE ret' < 0 /\ boardRequest'.method = boardRequest.method]_vars

\* the headers of the request at hand
RequestHeaders == phr_parse_request(recvBuffer, MAXHeaders).headers

\* the format of a Sign 200 response, by its body
ResponseFormat ==
    IF StartsWithAt(BodyOf(response), 0, SignatureJsonOpen) THEN applicationJson
    ELSE textPlain

\* C12: the format of a Sign 200 response is the one the Accept header of
\* the request selects (application/json or */*: JSON; anything else or no
\* Accept header: text), whatever acceptType the boardRequest held before.
C12_FormatFollowsAccept ==
    (pc = "responded" /\ boardRequest.method = sign /\ Is200(response))
    => ResponseFormat = getAcceptOptions(RequestHeaders)

\* C13: a request whose Accept or Content-Length header name is written in
\* another letter case gets from parseRequest (framing check, getBody) and
\* from getAcceptOptions what the same request in the canonical spelling
\* gets.
C13_HeaderNamesAnyCase ==
    [][\A p \in CasePairs :
          (pc = "idle" /\ pc' \in {"parsed", "rejected"} /\ recvBuffer' = p[1])
          => /\ \E n \in NumHeadersGarbage :
                   LET c == parseRequest(p[2], boardRequest, n)
                   IN  ret' = c.ret /\ boardRequest' = c.reply
             /\ getAcceptOptions(phr_parse_request(p[1], MAXHeaders).headers)
                   = getAcceptOptions(phr_parse_request(p[2], MAXHeaders).headers)]_vars

\* some entry below the size holds the 32 bytes of sk_imp
StoredSecret(sk_imp) ==
    \E i \in 0..(Min(keystore_size, K) - 1) : secret_keys_store[i + 1] = sk_imp

\* C14: import_sk(sk_imp) answers -1 and changes neither the size, the
\* stored secrets nor sk exactly when sk_imp is a secret stored below the
\* size; otherwise it answers 0, puts sk_imp into the entry at index size,
\* increments the size and sets sk to sk_imp.
C14_ImportSkRefusesDuplicates ==
    [][\A sk_imp \in Scalars :
          import_sk(sk_imp) =>
             IF StoredSecret(sk_imp)
             THEN /\ \A oobEqual \in BOOLEAN : import_sk_result(sk_imp, oobEqual) = 0 - 1
                  /\ UNCHANGED <<keystore_size, secret_keys_store, sk>>
             ELSE /\ \A oobEqual \in BOOLEAN : import_sk_result(sk_imp, oobEqual) = 0
                  /\ keystore_size < K
                  /\ secret_keys_store' =
                        [secret_keys_store EXCEPT ![keystore_size + 1] = sk_imp]
                  /\ keystore_size' = keystore_size + 1
                  /\ sk' = sk_imp]_vars

\* C15: when import_from_keystore has returned, with 0 or with an error,
\* its decryption key and its private-key buffer hold only zeros.
C15_ImportLeavesNoKeyMaterial ==
    (pc = "responded" /\ boardRequest.method = importKey /\ import.steps # <<>>)
    => (import.decryption_key = ZeroKey /\ import.private_key = ZeroScalar)

\* the ListKeys JSON of the keystore as it is: one line "0x<stored hex>" for
\* each index below the size, a comma after each but the last
CurrentKeyLines ==
    [i \in 1..Min(keystore_size, K) |->
        <<"\"", "0", "x">> \o StoredHex(i - 1) \o <<"\"">>]
CurrentKeysJson ==
    <<"[", "\n">> \o Join(CurrentKeyLines, <<",", "\n">>)
    \o (IF keystore_size > 0 THEN <<"\n">> ELSE <<>>) \o <<"]">>

\* C16: the body of a successful Import response is the ListKeys JSON of
\* the keystore as it is after the import, not a key list an earlier
\* request left in the boardRequest.
C16_ImportAnswersCurrentKeys ==
    (pc = "responded" /\ boardRequest.method = importKey /\ Is200(response))
    => BodyOf(response) = CurrentKeysJson

\* C17: the body of a ListKeys response has one entry "0x<96 hex>" for each
\* index below the size, in insertion order, a comma between entries only;
\* for an empty keystore it is [, newline, ].
C17_ListKeysListsStoredKeys ==
    (pc = "responded" /\ boardRequest.method = getKeys)
    => (Is200(response) /\ BodyOf(response) = CurrentKeysJson)

\* C18: when the hardware random number generator returns an error, ikm_sk
\* appends no secret and leaves the keystore size as it was.
C18_RngErrorAppendsNothing ==
    [][ikm_sk_drbg("error")
       => /\ keystore_size' = keystore_size
          /\ secret_keys_store' = secret_keys_store]_vars

\* the Import request of the one pbkdf2 keystore, whose password is "pw" and
\* whose salt is "5a"
Pbkdf2Request ==
    Post(keymanagerStr, <<>>,
         ImportText([keystores |-> <<"Pbkdf2">>, passwords |-> <<"pw">>]))

\* C19: once the key derivation step has run for a pbkdf2 keystore, the
\* decryption key is the one derived from the keystore's own password and
\* parameters, never what the array held before.
C19_Pbkdf2KeyIsDerived ==
    (/\ pc = "responded"
     /\ boardRequest.method = importKey
     /\ recvBuffer = Pbkdf2Request
     /\ \E j \in 1..Len(import.steps) : import.steps[j] = <<"kdf", 0, 0>>)
    => import.decryption_key = DerivedKey("pw", "5a")

\* the steps of the pipeline for one keystore, in the order of the source
PipelineSteps == <<"type", "kdf", "verify", "decrypt">>

\* C20: import_from_keystore runs, keystore after keystore in batch order,
\* the steps select KDF, derive key, verify checksum, decrypt; a step runs
\* only after every step before it returned 0 (so decryption of keystore i
\* only after its checksum verification returned 0), nothing runs after a
\* step that failed, and the import then reports the error.
C20_ImportStepOrder ==
    (pc = "responded" /\ boardRequest.method = importKey)
    => \A s \in {import.steps} :
        /\ Len(s) <= 4 * import.nKeystores
        /\ \A j \in 1..Len(s) :
            /\ s[j][1] = PipelineSteps[((j - 1) % 4) + 1]
            /\ s[j][2] = (j - 1) \div 4
            /\ j < Len(s) => s[j][3] = 0
        /\ (Len(s) > 0 /\ s[Len(s)][3] # 0) => import.ret # 0
        /\ (Len(s) > 0 /\ s[Len(s)][3] = 0)
            => (Len(s) = 4 * import.nKeystores /\ import.ret = 0)

\* the first keystore went through the four steps and a step of the second
\* failed
C20_Witness ==
    /\ pc = "responded"
    /\ boardRequest.method = importKey
    /\ Len(import.steps) > 4
    /\ import.steps[Len(import.steps)][3] # 0
    /\ import.ret # 0

\* the header block of the buffer has its blank line
HeadersTerminated(buf) == strstrFrom(buf, 0, CRLFCRLF) # 0 - 1

\* C21: for a GET or POST whose header block has no blank line yet,
\* parseRequest answers -2 while the buffer holds fewer than 300 bytes and -1
\* once it holds 300 bytes or more, with or without a Content-Length header.
C21_UnterminatedHeaders ==
    (/\ pc \in {"reading", "parsed", "rejected"}
     /\ StartsWithAt(recvBuffer, 0, GETStr) \/ StartsWithAt(recvBuffer, 0, POSTStr)
     /\ ~HeadersTerminated(recvBuffer))
    => ret = IF Len(recvBuffer) < HeaderLimit THEN 0 - 2 ELSE 0 - 1

\* C22: the length parseRequest expects of a POST is that of its header block
\* up to the blank line, plus 4, plus Content-Length, wherever Content-Length
\* sits: of a request in which a header follows Content-Length, a prefix that
\* has the blank line and not yet the whole body is answered -2 and the whole
\* request 0.
C22_LengthCountsWholeHeaderBlock ==
    (pc \in {"reading", "parsed", "rejected"} /\ IsPrefix(recvBuffer, PostLengthFirst))
    => /\ (HeadersTerminated(recvBuffer) /\ Len(recvBuffer) < Len(PostLengthFirst))
          => ret = 0 - 2
       /\ recvBuffer = PostLengthFirst => ret = 0

\* the values of the headers of the request at hand named Content-Length
ContentLengthName == SubSeq(ContentLengthColon, 1, Len(contentLengthStr))
ContentLengthValues ==
    {atoi(RequestHeaders[i].value, 0) :
        i \in {j \in 1..Len(RequestHeaders) : RequestHeaders[j].name = ContentLengthName}}

\* C23: when parseRequest has accepted a POST that has a Content-Length
\* header of value N, the body it hands to the Sign or Import handler is the
\* last N bytes of the buffer and the length it records is N.
C23_BodyIsLastContentLengthBytes ==
    (pc = "parsed" /\ boardRequest.method \in {sign, importKey})
    => \A N \in ContentLengthValues :
          /\ boardRequest.jsonLen = N
          /\ boardRequest.json = Len(recvBuffer) - N

\* the lookups made of the keystore: a key as 96 hex characters, with or
\* without 0x, at offset 0, and one behind 0x at offset 2
Lookups ==
    {<<h, 0>> : h \in PkInputs} \cup {<<(<<"0", "x">> \o PkHex(s)), 2>> : s \in Scalars}

\* the indices below the size whose stored characters are, one by one, the 96
\* characters of public_key_hex from offset on
StoredAt(public_key_hex, offset) ==
    {i \in 0..(keystore_size - 1) :
        \A x \in 0..(keySize - 1) :
            CharAt(public_key_hex, x + offset) = StoredHex(i)[x + 1]}

\* C24: pk_in_keystore answers 0 exactly when the 96 characters at the offset
\* are the stored public key of some index below the size, and sk_sign is then
\* the secret of the smallest such index; it answers -1 when none is, and for
\* the empty keystore.
C24_LookupFindsFirstMatch ==
    /\ [](InBounds =>
            \A l \in Lookups : \A hits \in {StoredAt(l[1], l[2])} :
                /\ pk_in_keystore_ret(l[1], l[2]) = 0 <=> hits # {}
                /\ hits = {} => pk_in_keystore_ret(l[1], l[2]) = 0 - 1
                /\ keystore_size = 0 => pk_in_keystore_ret(l[1], l[2]) = 0 - 1)
    /\ [][\A l \in Lookups :
            pk_in_keystore(l[1], l[2])
            => \A hits \in {StoredAt(l[1], l[2])} :
                  hits # {} => \E i \in hits :
                                  /\ \A j \in hits : i <= j
                                  /\ sk_sign' = secret_keys_store[i + 1]]_vars

\* a lookup has selected the secret of the second slot
C24_Witness ==
    /\ keystore_size = 2
    /\ sk_sign # ZeroScalar
    /\ sk_sign = secret_keys_store[2]
    /\ sk_sign # secret_keys_store[1]
    /\ StoredHex(1) = PkHex(sk_sign)

\* C25: a pk_in_keystore call that answers -1 leaves sk_sign as it was, and
\* sign_pk signs with sk_sign as it is; while every entry point writes within
\* the arrays (a size from 1 to K - 1) nothing but a lookup that answers 0
\* changes sk_sign, so the secret a signature is made with after a failed
\* lookup is the one the last successful lookup selected.
C25_FailedLookupKeepsSkSign ==
    [][/\ \A l \in Lookups :
            (pk_in_keystore(l[1], l[2]) /\ pk_in_keystore_ret(l[1], l[2]) = 0 - 1)
            => sk_sign' = sk_sign
       /\ \A m \in Hashes :
            sign_pk(m) => (sig' = blst_sign_pk_in_g1(m, sk_sign) /\ sk_sign' = sk_sign)
       /\ (sk_sign' # sk_sign /\ keystore_size \in 1..(K - 1))
            => \E l \in Lookups :
                  pk_in_keystore(l[1], l[2]) /\ pk_in_keystore_ret(l[1], l[2]) = 0]_vars

\* a signature made with a selected secret whose public key the keystore no
\* longer finds: a lookup of it answers -1 and sign_pk still signs with it
C25_Witness ==
    /\ InBounds
    /\ sk_sign \in Scalars
    /\ pk_in_keystore_ret(PkHex(sk_sign), 0) = 0 - 1
    /\ \E m \in Hashes : sig = blst_sign_pk_in_g1(m, sk_sign)

\* the size, the stored secrets and the stored public keys are the same after
\* the step
KeystoreUntouched ==
    /\ keystore_size' = keystore_size
    /\ secret_keys_store' = secret_keys_store
    /\ public_keys_hex_store' = public_keys_hex_store

\* C26: answering an Upcheck, ListKeys or Sign request, and every parseRequest
\* that fails, leaves the keystore size, the stored secrets and the stored
\* public keys as they were; a step that changes one of them is an entry point
\* called between requests (ikm_sk, store_pk, reset) or an Import.
C26_ServingLeavesKeystore ==
    [][/\ (/\ pc = "parsed"
           /\ boardRequest.method \in {sign, upcheck, getKeys}
           /\ pc' = "responded") => KeystoreUntouched
       /\ (pc = "idle" /\ pc' = "rejected") => KeystoreUntouched
       /\ ~KeystoreUntouched
            => \/ pc = "idle" /\ pc' = "idle"
               \/ pc = "parsed" /\ boardRequest.method = importKey]_vars

\* a Sign request has been answered with a signature and a ListKeys request
\* before it has listed the key
C26_Witness ==
    /\ pc = "responded"
    /\ boardRequest.method = sign
    /\ Is200(response)
    /\ boardRequest.nKeys > 0
    /\ keystore_size > 0
    /\ StoredHex(0) # NulBlock
====
